---- MODULE Spec2Model ----
(***************************************************************************)
(* The metrics aggregation and exposition core of the conduit proxy        *)
(* (proxy/src/telemetry/metrics): the dimension tree of tree.rs and its    *)
(* encoder, the label composer of labels.rs, the gauge of gauge.rs, and    *)
(* the Aggregate / Serve halves of mod.rs.                                 *)
(*                                                                         *)
(* Text is held as a sequence of tokens: one token per key="value" pair    *)
(* and one token per comma, in the order the code writes them.  A u64 is   *)
(* held in its two's-complement reading: 0, 1, 2, ... for the values near  *)
(* zero and -1, -2, ... for u64::MAX, u64::MAX - 1, ...                    *)
(***************************************************************************)
EXTENDS Integers, Sequences, FiniteSets, TLC

VARIABLES
    root,       \* tree.rs: the Root the events are recorded in
    events,     \* the number of Root::record calls made so far
    warnings,   \* gauge.rs: "Gauge underflow" warnings logged, per TransportTree
    frag_a,     \* labels.rs: the fragment A of A.append(B)
    frag_b,     \* labels.rs: the fragment B of A.append(B)
    frag_out,   \* labels.rs: is_empty() and the text of A.append(B), once formatted
    h2_error,           \* tree.rs: an HTTP/2 error code
    h2_request_reason,  \* tree.rs: its reason in HttpRequestTree::fail
    h2_response_reason, \* tree.rs: its reason in HttpResponseTree::fail
    metrics,    \* mod.rs: the MetricsTree inside the Arc<Mutex<..>>
    lock,       \* mod.rs: the task holding the mutex, if any
    poisoned,   \* mod.rs: whether a task panicked holding the mutex
    pc,         \* mod.rs: where each task is in record_event or in call
    arg,        \* mod.rs: the event or request of each task's last call
    response,   \* mod.rs: the response of each scrape task's last call
    pairs_a,    \* labels.rs: the pairs given to a first DstLabels::new
    pairs_b,    \* labels.rs: the pairs given to a second DstLabels::new
    dst_a,      \* labels.rs: what the first call returned, once made
    dst_b,      \* labels.rs: what the second call returned, once made
    dst_tree,   \* tree.rs: a ProxyTree after dst_mut for both, once made
    gauge,      \* gauge.rs: a Gauge
    gauge_was,  \* gauge.rs: the Gauge before the last incr or decr
    gauge_op,   \* gauge.rs: the last operation on the Gauge and its warning
    history,    \* the events a Root was given, in the order of the record calls
    frag_c,     \* labels.rs: a third fragment, for A.append(B).append(C)
    composed,   \* labels.rs: the texts of both groupings of A, B and C, once formatted
    watch,      \* tree.rs: the destination labels a client's watch holds now
    desc,       \* mod.rs, help.rs: a metric descriptor
    prelude     \* mod.rs, help.rs: the lines its Display wrote, once formatted

treeVars == <<root, events, warnings>>

labelVars == <<frag_a, frag_b, frag_out>>

h2Vars == <<h2_error, h2_request_reason, h2_response_reason>>

serveVars == <<metrics, lock, poisoned, pc, arg, response>>

dstVars == <<pairs_a, pairs_b, dst_a, dst_b, dst_tree>>

gaugeVars == <<gauge, gauge_was, gauge_op>>

scrapeVars == <<history>>

composeVars == <<frag_c, composed>>

watchVars == <<watch>>

descVars == <<desc, prelude>>

vars ==
    <<treeVars, labelVars, h2Vars, serveVars, dstVars, gaugeVars, scrapeVars,
      composeVars, watchVars, descVars>>

(***************************************************************************)
(* Bounds and input sets.                                                  *)
(***************************************************************************)
MaxEvents == 3

(***************************************************************************)
(* Option<T>: None is <<>>, Some(x) is <<x>>.                              *)
(***************************************************************************)
None == <<>>

Some(x) == <<x>>

(***************************************************************************)
(* Tokens of label text.                                                   *)
(***************************************************************************)
Label(key, value) == [k |-> key, v |-> value]

Comma == [k |-> ",", v |-> ""]

SUCCESS_CLASS == Label("classification", "success")

FAILURE_CLASS == Label("classification", "failure")

(***************************************************************************)
(* u64 arithmetic.                                                         *)
(***************************************************************************)
U64_MAX == -1

\* Gauge::incr without the check: an unchecked addition.
GaugeIncrUnchecked(g) == g + 1

GaugeIncr(g) == IF g # U64_MAX THEN g + 1 ELSE g

\* Whether Gauge::incr takes its warn!("Gauge overflow") branch.
GaugeIncrWarns(g) == g = U64_MAX

\* Gauge::decr without the check: an unchecked subtraction.
GaugeDecrUnchecked(g) == g - 1

GaugeDecr(g) == IF g # 0 THEN g - 1 ELSE g

\* Whether Gauge::decr takes its warn!("Gauge underflow") branch.
GaugeDecrWarns(g) == g = 0

\* Counter (counter.rs): saturating add.
CounterAdd(c, n) == IF c < 0 /\ c + n >= 0 THEN U64_MAX ELSE c + n

CounterIncr(c) == CounterAdd(c, 1)

\* Unsigned order of two u64 values.
U64Le(a, b) == IF (a >= 0) = (b >= 0) THEN a <= b ELSE a >= 0

\* Histogram (latency.rs): the number of samples and their sum, in ms.
DefaultHistogram == [count |-> 0, sum |-> 0]

HistogramObserve(h, ms) ==
    [count |-> CounterIncr(h.count), sum |-> CounterAdd(h.sum, ms)]

(***************************************************************************)
(* IndexMap: a sequence of entries [k, v] in insertion order.              *)
(***************************************************************************)
contains_key(m, key) == \E i \in 1..Len(m) : m[i].k = key

get_index_of(m, key) == CHOOSE i \in 1..Len(m) : m[i].k = key

get(m, key) == m[get_index_of(m, key)].v

\* or_insert_with on a map that puts a new entry first, not last.
entry_or_insert_first(m, key, default) ==
    IF contains_key(m, key) THEN m ELSE <<[k |-> key, v |-> default]>> \o m

\* m.entry(key).or_insert_with(Default::default): the map once the entry is
\* there.
entry_or_insert_with(m, key, default) ==
    IF contains_key(m, key) THEN m ELSE Append(m, [k |-> key, v |-> default])

\* The value the &mut of m.entry(key).or_insert_with(..) refers to.
entry_get(m, key, default) ==
    IF contains_key(m, key) THEN get(m, key) ELSE default

\* entry_set on a map that is cleared first: earlier entries are evicted.
entry_set_evicts(m, key, default, value) ==
    <<[k |-> key, v |-> value]>>

\* The map after value is written through that &mut.
entry_set(m, key, default, value) ==
    LET m1 == entry_or_insert_with(m, key, default)
    IN  [m1 EXCEPT ![get_index_of(m1, key)].v = value]

(***************************************************************************)
(* labels.rs: label fragments.  A fragment is one of                       *)
(*   [kind |-> "unit"]                      ()                             *)
(*   [kind |-> "str", s |-> text]           &str                           *)
(*   [kind |-> "fn", s |-> text]            a closure writing text         *)
(*   [kind |-> "dst", d |-> DstLabels]      DstLabels                      *)
(*   [kind |-> "option", o |-> Option]      Option<L>                      *)
(*   [kind |-> "append", a |-> A, b |-> B]  AppendLabels(A, B)             *)
(***************************************************************************)
Unit == [kind |-> "unit"]

Str(text) == [kind |-> "str", s |-> text]

Fn(text) == [kind |-> "fn", s |-> text]

Dst(d) == [kind |-> "dst", d |-> d]

Opt(o) == [kind |-> "option", o |-> o]

\* FmtLabels::append
append(a, b) == [kind |-> "append", a |-> a, b |-> b]

\* AppendLabels::is_empty, on the two parts' is_empty.
AppendLabels_is_empty(ea, eb) == ea /\ eb

\* AppendLabels::fmt_labels writing the comma whatever the parts.
AppendLabels_fmt_labels_always_comma(ea, eb, ta, tb) == ta \o <<Comma>> \o tb

\* AppendLabels::fmt_labels, on the two parts' is_empty and text.
AppendLabels_fmt_labels(ea, eb, ta, tb) ==
    CASE ea /\ eb   -> <<>>
      [] ~ea /\ eb  -> ta
      [] ea /\ ~eb  -> tb
      [] ~ea /\ ~eb -> ta \o <<Comma>> \o tb

RECURSIVE is_empty(_)
is_empty(l) ==
    CASE l.kind = "unit"   -> TRUE
      [] l.kind = "str"    -> l.s = <<>>
      [] l.kind = "fn"     -> FALSE
      [] l.kind = "dst"    -> l.d.formatted = <<>>
      [] l.kind = "option" -> IF l.o = None THEN TRUE ELSE is_empty(l.o[1])
      [] l.kind = "append" -> AppendLabels_is_empty(is_empty(l.a), is_empty(l.b))

RECURSIVE fmt_labels(_)
fmt_labels(l) ==
    CASE l.kind = "unit"   -> <<>>
      [] l.kind = "str"    -> l.s
      [] l.kind = "fn"     -> l.s
      [] l.kind = "dst"    -> l.d.formatted
      [] l.kind = "option" -> IF l.o = None THEN <<>> ELSE fmt_labels(l.o[1])
      [] l.kind = "append" ->
            AppendLabels_fmt_labels(is_empty(l.a), is_empty(l.b),
                                    fmt_labels(l.a), fmt_labels(l.b))

\* HashMap::insert on a map held as a set of <<key, value>> pairs.
hash_insert(m, key, value) == {p \in m : p[1] # key} \cup {<<key, value>>}

RECURSIVE dst_formatted(_)
dst_formatted(pairs) ==
    IF Len(pairs) = 1
    THEN <<Label("dst_" \o pairs[1][1], pairs[1][2])>>
    ELSE dst_formatted(SubSeq(pairs, 1, Len(pairs) - 1))
         \o <<Comma, Label("dst_" \o pairs[Len(pairs)][1], pairs[Len(pairs)][2])>>

RECURSIVE dst_original(_)
dst_original(pairs) ==
    IF pairs = <<>> THEN {}
    ELSE hash_insert(dst_original(SubSeq(pairs, 1, Len(pairs) - 1)),
                     pairs[Len(pairs)][1], pairs[Len(pairs)][2])

\* DstLabels::new: None for no pairs.
DstLabels_new(pairs) ==
    IF pairs = <<>> THEN None
    ELSE Some([formatted |-> dst_formatted(pairs),
               original  |-> dst_original(pairs)])

(***************************************************************************)
(* tree.rs: the dimension tree.                                            *)
(***************************************************************************)
DefaultTransportEndMetrics == [close_total |-> 0, lifetime |-> DefaultHistogram]

DefaultTransportTree ==
    [open_total |-> 0, open_active |-> 0,
     rx_bytes_total |-> 0, tx_bytes_total |-> 0, by_end |-> <<>>]

DefaultDstTree ==
    [src_tcp_metrics |-> DefaultTransportTree,
     dst_tcp_metrics |-> DefaultTransportTree,
     by_http_request |-> <<>>]

DefaultHttpEndMetrics == [total |-> 0, latency |-> DefaultHistogram]

DefaultHttpResponseTree == [by_end |-> <<>>]

DefaultHttpRequestTree == [metrics |-> [total |-> 0], by_response |-> <<>>]

DefaultProxyTree == [by_dst |-> <<>>]

\* Root::new
Root_new(t0) ==
    [inbound |-> DefaultProxyTree, outbound |-> DefaultProxyTree, start_time |-> t0]

\* The keys of the maps.
DstClass(labels) == [labels |-> labels]

HttpRequestClass(authority) == [authority |-> authority]

ResponseClass(status_code) == [tag |-> "Response", status_code |-> status_code]

ErrorClass(reason) == [tag |-> "Error", reason |-> reason]

EosEnd == [tag |-> "Eos"]

GrpcEnd(status_code) == [tag |-> "Grpc", status_code |-> status_code]

ErrorEnd(reason) == [tag |-> "Error", reason |-> reason]

H2_REASONS ==
    <<"NO_ERROR", "PROTOCOL_ERROR", "INTERNAL_ERROR", "FLOW_CONTROL_ERROR",
      "SETTINGS_TIMEOUT", "STREAM_CLOSED", "FRAME_SIZE_ERROR", "REFUSED_STREAM",
      "CANCEL", "COMPRESSION_ERROR", "CONNECT_ERROR", "ENHANCE_YOUR_CALM",
      "INADEQUATE_SECURITY", "HTTP_1_1_REQUIRED", "UNKNOWN">>

\* The reason of an HTTP/2 error code in HttpRequestTree::fail
\* (H2_REASONS is indexed from 0 in the code, from 1 here).
request_fail_reason(error) ==
    LET code == error
        idx  == IF code < Len(H2_REASONS) THEN code ELSE Len(H2_REASONS) - 1
    IN  H2_REASONS[idx + 1]

\* HttpResponseTree::fail clamping an unknown code to the first reason.
response_fail_reason_clamps_to_first(error) ==
    LET code == error
        idx  == IF code < Len(H2_REASONS) THEN code ELSE 0
    IN  H2_REASONS[idx + 1]

\* The reason of an HTTP/2 error code in HttpResponseTree::fail.
response_fail_reason(error) ==
    LET code == error
        idx  == IF code < Len(H2_REASONS) THEN code ELSE Len(H2_REASONS) - 1
    IN  H2_REASONS[idx + 1]

\* Root::proxy_mut: the ProxyTree the &mut refers to.
proxy_mut(r, proxy) == IF proxy = "Inbound" THEN r.inbound ELSE r.outbound

\* proxy_set with one ProxyTree behind both directions.
proxy_set_both(r, proxy, p) == [r EXCEPT !.inbound = p, !.outbound = p]

\* The Root after p is written through the &mut of proxy_mut.
proxy_set(r, proxy, p) ==
    IF proxy = "Inbound" THEN [r EXCEPT !.inbound = p]
    ELSE [r EXCEPT !.outbound = p]

\* dst_mut that does not read the client's labels.
dst_snapshot_unread(ctx) == None

\* The label snapshot ProxyTree::dst_mut reads: ctx is an Option of a client.
dst_snapshot(ctx) == IF ctx = None THEN None ELSE ctx[1].dst_labels

\* ProxyTree::dst_mut: the DstTree the &mut refers to.
dst_mut(p, ctx) ==
    entry_get(p.by_dst, DstClass(dst_snapshot(ctx)), DefaultDstTree)

\* The ProxyTree after d is written through the &mut of dst_mut.
dst_set(p, ctx, d) ==
    [p EXCEPT !.by_dst =
        entry_set(@, DstClass(dst_snapshot(ctx)), DefaultDstTree, d)]

\* DstTree::transport_mut: the TransportTree the &mut refers to.
transport_mut(d, ctx) ==
    IF ctx.role = "Client" THEN d.dst_tcp_metrics ELSE d.src_tcp_metrics

\* The DstTree after t is written through the &mut of transport_mut.
transport_set(d, ctx, t) ==
    IF ctx.role = "Client" THEN [d EXCEPT !.dst_tcp_metrics = t]
    ELSE [d EXCEPT !.src_tcp_metrics = t]

\* The authority DstTree::http_request_mut keys by: the empty string for none.
request_authority(req) == IF req.authority = None THEN "" ELSE req.authority[1]

\* DstTree::http_request_mut: the HttpRequestTree the &mut refers to.
http_request_mut(d, req) ==
    entry_get(d.by_http_request, HttpRequestClass(request_authority(req)),
              DefaultHttpRequestTree)

\* The DstTree after t is written through the &mut of http_request_mut.
http_request_set(d, req, t) ==
    [d EXCEPT !.by_http_request =
        entry_set(@, HttpRequestClass(request_authority(req)),
                  DefaultHttpRequestTree, t)]

\* DstTree::http_response_mut: the HttpResponseTree the &mut refers to.
http_response_mut(d, rsp) ==
    entry_get(http_request_mut(d, rsp.request).by_response,
              ResponseClass(rsp.status), DefaultHttpResponseTree)

\* The DstTree after t is written through the &mut of http_response_mut.
http_response_set(d, rsp, t) ==
    LET req == http_request_mut(d, rsp.request)
    IN  http_request_set(d, rsp.request,
            [req EXCEPT !.by_response =
                entry_set(@, ResponseClass(rsp.status),
                          DefaultHttpResponseTree, t)])

\* HttpEndMetrics::add without the observation.
HttpEndMetrics_add_unobserved(m, latency) ==
    [total |-> CounterIncr(m.total), latency |-> m.latency]

\* HttpEndMetrics::add
HttpEndMetrics_add(m, latency) ==
    [total |-> CounterIncr(m.total), latency |-> HistogramObserve(m.latency, latency)]

\* HttpRequestTree::open
HttpRequestTree_open(t) == [t EXCEPT !.metrics.total = CounterIncr(@)]

\* HttpRequestTree::end that counts the request once more.
HttpRequestTree_end_counts(t, end) == [t EXCEPT !.metrics.total = CounterIncr(@)]

\* HttpRequestTree::end
HttpRequestTree_end(t, end) == t

\* HttpRequestTree::fail that files the failure under end class Eos.
HttpRequestTree_fail_ends_eos(t, fail) ==
    LET reason == request_fail_reason(fail.error)
        rsp    == entry_get(t.by_response, ErrorClass(reason),
                            DefaultHttpResponseTree)
        e      == entry_get(rsp.by_end, EosEnd, DefaultHttpEndMetrics)
    IN  [t EXCEPT !.by_response =
            entry_set(@, ErrorClass(reason), DefaultHttpResponseTree,
                [rsp EXCEPT !.by_end =
                    entry_set(@, EosEnd, DefaultHttpEndMetrics,
                        HttpEndMetrics_add(e, fail.since_request_open))])]

\* HttpRequestTree::fail that also counts the request.
HttpRequestTree_fail_counts_request(t, fail) ==
    LET reason == request_fail_reason(fail.error)
        rsp    == entry_get(t.by_response, ErrorClass(reason),
                            DefaultHttpResponseTree)
        e      == entry_get(rsp.by_end, ErrorEnd(reason), DefaultHttpEndMetrics)
    IN  [t EXCEPT !.metrics.total = CounterIncr(@),
                  !.by_response =
            entry_set(@, ErrorClass(reason), DefaultHttpResponseTree,
                [rsp EXCEPT !.by_end =
                    entry_set(@, ErrorEnd(reason), DefaultHttpEndMetrics,
                        HttpEndMetrics_add(e, fail.since_request_open))])]

\* HttpRequestTree::fail
HttpRequestTree_fail(t, fail) ==
    LET reason == request_fail_reason(fail.error)
        rsp    == entry_get(t.by_response, ErrorClass(reason),
                            DefaultHttpResponseTree)
        e      == entry_get(rsp.by_end, ErrorEnd(reason), DefaultHttpEndMetrics)
    IN  [t EXCEPT !.by_response =
            entry_set(@, ErrorClass(reason), DefaultHttpResponseTree,
                [rsp EXCEPT !.by_end =
                    entry_set(@, ErrorEnd(reason), DefaultHttpEndMetrics,
                        HttpEndMetrics_add(e, fail.since_request_open))])]

\* HttpResponseTree::open
HttpResponseTree_open(t, open) == t

\* HttpResponseTree::end that files every end under Eos.
HttpResponseTree_end_ignores_grpc(t, end) ==
    LET class == EosEnd
        e     == entry_get(t.by_end, class, DefaultHttpEndMetrics)
    IN  [t EXCEPT !.by_end =
            entry_set(@, class, DefaultHttpEndMetrics,
                      HttpEndMetrics_add(e, end.since_request_open))]

\* HttpResponseTree::end
HttpResponseTree_end(t, end) ==
    LET class == IF end.grpc_status # None THEN GrpcEnd(end.grpc_status[1])
                 ELSE EosEnd
        e     == entry_get(t.by_end, class, DefaultHttpEndMetrics)
    IN  [t EXCEPT !.by_end =
            entry_set(@, class, DefaultHttpEndMetrics,
                      HttpEndMetrics_add(e, end.since_request_open))]

\* HttpResponseTree::fail
HttpResponseTree_fail(t, fail) ==
    LET reason == response_fail_reason(fail.error)
        e      == entry_get(t.by_end, ErrorEnd(reason), DefaultHttpEndMetrics)
    IN  [t EXCEPT !.by_end =
            entry_set(@, ErrorEnd(reason), DefaultHttpEndMetrics,
                      HttpEndMetrics_add(e, fail.since_request_open))]

\* TransportTree::open
TransportTree_open(t) ==
    [t EXCEPT !.open_total = CounterIncr(@), !.open_active = GaugeIncr(@)]

\* TransportTree::close with the byte counters assigned instead of added to.
TransportTree_close_assigns(t, close) ==
    LET class == IF close.clean THEN "Success" ELSE "Failure"
        e     == entry_get(t.by_end, class, DefaultTransportEndMetrics)
    IN  [t EXCEPT
            !.open_active = GaugeDecr(@),
            !.rx_bytes_total = close.rx_bytes,
            !.tx_bytes_total = close.tx_bytes,
            !.by_end = entry_set(@, class, DefaultTransportEndMetrics,
                [lifetime    |-> HistogramObserve(e.lifetime, close.duration),
                 close_total |-> CounterIncr(e.close_total)])]

\* TransportTree::close with the end classes exchanged.
TransportTree_close_swaps_ends(t, close) ==
    LET class == IF close.clean THEN "Failure" ELSE "Success"
        e     == entry_get(t.by_end, class, DefaultTransportEndMetrics)
    IN  [t EXCEPT
            !.open_active = GaugeDecr(@),
            !.rx_bytes_total = CounterAdd(@, close.rx_bytes),
            !.tx_bytes_total = CounterAdd(@, close.tx_bytes),
            !.by_end = entry_set(@, class, DefaultTransportEndMetrics,
                [lifetime    |-> HistogramObserve(e.lifetime, close.duration),
                 close_total |-> CounterIncr(e.close_total)])]

\* TransportTree::close
TransportTree_close(t, close) ==
    LET class == IF close.clean THEN "Success" ELSE "Failure"
        e     == entry_get(t.by_end, class, DefaultTransportEndMetrics)
    IN  [t EXCEPT
            !.open_active = GaugeDecr(@),
            !.rx_bytes_total = CounterAdd(@, close.rx_bytes),
            !.tx_bytes_total = CounterAdd(@, close.tx_bytes),
            !.by_end = entry_set(@, class, DefaultTransportEndMetrics,
                [lifetime    |-> HistogramObserve(e.lifetime, close.duration),
                 close_total |-> CounterIncr(e.close_total)])]

\* transport_client that hands dst_mut a client for a server too.
transport_client_for_server(ctx) ==
    IF ctx.role = "Client" THEN Some([dst_labels |-> ctx.dst_labels])
    ELSE Some([dst_labels |-> DstLabels_new(<< <<"app", "foo">> >>)])

\* The client a transport context hands to dst_mut: None for a server.
transport_client(ctx) ==
    IF ctx.role = "Client" THEN Some([dst_labels |-> ctx.dst_labels]) ELSE None

\* The client of a request, as handed to dst_mut.
request_client(req) == Some([dst_labels |-> req.dst_labels])

\* The TransportTree Root::record reaches for a transport context:
\* proxy_mut, dst_mut, transport_mut.
transport_at(r, ctx) ==
    transport_mut(dst_mut(proxy_mut(r, ctx.proxy), transport_client(ctx)), ctx)

\* The Root after t is written through that &mut.
transport_put(r, ctx, t) ==
    LET p == proxy_mut(r, ctx.proxy)
        d == dst_mut(p, transport_client(ctx))
    IN  proxy_set(r, ctx.proxy,
            dst_set(p, transport_client(ctx), transport_set(d, ctx, t)))

\* The HttpRequestTree Root::record reaches for a request:
\* proxy_mut, dst_mut, http_request_mut.
request_at(r, req) ==
    http_request_mut(dst_mut(proxy_mut(r, req.proxy), request_client(req)), req)

\* request_put that makes no entry for a handler that wrote nothing.
request_put_if_written(r, req, t) ==
    LET p == proxy_mut(r, req.proxy)
        d == dst_mut(p, request_client(req))
    IN  IF t = request_at(r, req) THEN r
        ELSE proxy_set(r, req.proxy,
                dst_set(p, request_client(req), http_request_set(d, req, t)))

\* The Root after t is written through that &mut.
request_put(r, req, t) ==
    LET p == proxy_mut(r, req.proxy)
        d == dst_mut(p, request_client(req))
    IN  proxy_set(r, req.proxy,
            dst_set(p, request_client(req), http_request_set(d, req, t)))

\* The HttpResponseTree Root::record reaches for a response:
\* proxy_mut, dst_mut, http_response_mut.
response_at(r, res) ==
    http_response_mut(dst_mut(proxy_mut(r, res.request.proxy),
                              request_client(res.request)), res)

\* The Root after t is written through that &mut.
response_put(r, res, t) ==
    LET p == proxy_mut(r, res.request.proxy)
        d == dst_mut(p, request_client(res.request))
    IN  proxy_set(r, res.request.proxy,
            dst_set(p, request_client(res.request),
                    http_response_set(d, res, t)))

\* Root::record
Root_record(r, event) ==
    CASE event.type = "TransportOpen" ->
            transport_put(r, event.ctx,
                TransportTree_open(transport_at(r, event.ctx)))
      [] event.type = "TransportClose" ->
            transport_put(r, event.ctx,
                TransportTree_close(transport_at(r, event.ctx), event.close))
      [] event.type = "StreamRequestOpen" ->
            request_put(r, event.req,
                HttpRequestTree_open(request_at(r, event.req)))
      [] event.type = "StreamRequestFail" ->
            request_put(r, event.req,
                HttpRequestTree_fail(request_at(r, event.req), event.fail))
      [] event.type = "StreamRequestEnd" ->
            request_put(r, event.req,
                HttpRequestTree_end(request_at(r, event.req), event.end))
      [] event.type = "StreamResponseOpen" ->
            response_put(r, event.res,
                HttpResponseTree_open(response_at(r, event.res), event.open))
      [] event.type = "StreamResponseEnd" ->
            response_put(r, event.res,
                HttpResponseTree_end(response_at(r, event.res), event.end))
      [] event.type = "StreamResponseFail" ->
            response_put(r, event.res,
                HttpResponseTree_fail(response_at(r, event.res), event.fail))

(***************************************************************************)
(* The encoder: the scrape text as a sequence of sample lines              *)
(*   [name, braces, labels, value]                                         *)
(* where braces says whether "{" labels "}" is written at all.             *)
(***************************************************************************)
RECURSIVE concat(_)
\* Successive writes to the Formatter, one sequence of lines per entry.
concat(ss) == IF ss = <<>> THEN <<>> ELSE Head(ss) \o concat(Tail(ss))

\* fmt_metric without the is_empty test: the braces are always written.
fmt_metric_always_braces(name, value, labels) ==
    <<[name   |-> name,
       braces |-> TRUE,
       labels |-> fmt_labels(labels),
       value  |-> value]>>

\* FmtMetric for Gauge (and, with the same shape, for Counter).
fmt_metric(name, value, labels) ==
    <<[name   |-> name,
       braces |-> ~is_empty(labels),
       labels |-> IF ~is_empty(labels) THEN fmt_labels(labels) ELSE <<>>,
       value  |-> value]>>

\* FmtMetric for Histogram: its sum and its count.
Histogram_fmt_metric(name, h, labels) ==
    fmt_metric(name \o "_sum", h.sum, labels)
    \o fmt_metric(name \o "_count", h.count, labels)

\* FmtMetrics for TransportEndMetrics
TransportEndMetrics_fmt_metrics(m, labels) ==
    fmt_metric("tcp_close_total", m.close_total, labels)
    \o Histogram_fmt_metric("tcp_connection_duration_ms", m.lifetime, labels)

\* FmtMetrics for TransportTree
TransportTree_fmt_metrics(t, labels) ==
    fmt_metric("tcp_open_total", t.open_total, labels)
    \o fmt_metric("tcp_open_connections", t.open_active, labels)
    \o fmt_metric("tcp_read_bytes_total", t.rx_bytes_total, labels)
    \o fmt_metric("tcp_write_bytes_total", t.tx_bytes_total, labels)
    \o concat([i \in 1..Len(t.by_end) |-> LET e == t.by_end[i] IN
          LET l == IF e.k = "Success" THEN SUCCESS_CLASS ELSE FAILURE_CLASS
          IN  TransportEndMetrics_fmt_metrics(e.v, append(labels, Str(<<l>>)))])

\* FmtMetrics for HttpEndMetrics
HttpEndMetrics_fmt_metrics(m, labels) ==
    Histogram_fmt_metric("response_latency_ms", m.latency, labels)
    \o fmt_metric("response_total", m.total, labels)

\* rsp_labels with the Eos boundary off by one: status 500 counted a success.
rsp_labels_500_success(rsp_class, end_class) ==
    IF rsp_class.tag = "Error"
    THEN <<FAILURE_CLASS, Label("error", rsp_class.reason)>>
    ELSE LET http_status == rsp_class.status_code
         IN  CASE end_class.tag = "Eos" ->
                    <<IF http_status <= 500 THEN SUCCESS_CLASS ELSE FAILURE_CLASS,
                      Comma, Label("status_code", ToString(http_status))>>
               [] end_class.tag = "Grpc" ->
                    <<IF end_class.status_code = 0 THEN SUCCESS_CLASS
                      ELSE FAILURE_CLASS,
                      Comma, Label("status_code", ToString(http_status)),
                      Comma, Label("grpc_status_code", ToString(end_class.status_code))>>
               [] end_class.tag = "Error" ->
                    <<FAILURE_CLASS, Comma, Label("error", end_class.reason)>>

\* The text the rsp_labels closure of HttpResponseTree::fmt_metrics writes.
rsp_labels(rsp_class, end_class) ==
    IF rsp_class.tag = "Error"
    THEN <<FAILURE_CLASS, Label("error", rsp_class.reason)>>
    ELSE LET http_status == rsp_class.status_code
         IN  CASE end_class.tag = "Eos" ->
                    <<IF http_status < 500 THEN SUCCESS_CLASS ELSE FAILURE_CLASS,
                      Comma, Label("status_code", ToString(http_status))>>
               [] end_class.tag = "Grpc" ->
                    <<IF end_class.status_code = 0 THEN SUCCESS_CLASS
                      ELSE FAILURE_CLASS,
                      Comma, Label("status_code", ToString(http_status)),
                      Comma, Label("grpc_status_code", ToString(end_class.status_code))>>
               [] end_class.tag = "Error" ->
                    <<FAILURE_CLASS, Comma, Label("error", end_class.reason)>>

\* HttpResponseTree::fmt_metrics
HttpResponseTree_fmt_metrics(t, rsp_class, labels) ==
    concat([i \in 1..Len(t.by_end) |-> LET e == t.by_end[i] IN
        HttpEndMetrics_fmt_metrics(e.v, append(labels, Fn(rsp_labels(rsp_class, e.k))))])

\* FmtMetrics for HttpRequestTree
HttpRequestTree_fmt_metrics(t, labels) ==
    fmt_metric("request_total", t.metrics.total, labels)
    \o concat([i \in 1..Len(t.by_response) |-> LET e == t.by_response[i] IN
          HttpResponseTree_fmt_metrics(e.v, e.k, labels)])

\* FmtMetrics for DstTree
DstTree_fmt_metrics(d, labels) ==
    TransportTree_fmt_metrics(d.src_tcp_metrics,
                              append(labels, Str(<<Label("peer", "src")>>)))
    \o TransportTree_fmt_metrics(d.dst_tcp_metrics,
                                 append(labels, Str(<<Label("peer", "dst")>>)))
    \o concat([i \in 1..Len(d.by_http_request) |-> LET e == d.by_http_request[i] IN
          HttpRequestTree_fmt_metrics(e.v,
              append(labels, Fn(<<Label("authority", e.k.authority)>>)))])

\* FmtMetrics for ProxyTree
ProxyTree_fmt_metrics(p, labels) ==
    concat([i \in 1..Len(p.by_dst) |-> LET e == p.by_dst[i] IN
        IF e.k.labels # None
        THEN DstTree_fmt_metrics(e.v, append(labels, Dst(e.k.labels[1])))
        ELSE DstTree_fmt_metrics(e.v, labels)])

\* Display for Root
Root_fmt(r) ==
    fmt_metric("process_start_time_seconds", r.start_time, Unit)
    \o ProxyTree_fmt_metrics(r.inbound, Str(<<Label("direction", "inbound")>>))
    \o ProxyTree_fmt_metrics(r.outbound, Str(<<Label("direction", "outbound")>>))

(***************************************************************************)
(* The events recorded: small sets of each event's fields.                 *)
(***************************************************************************)
LabelsFoo == DstLabels_new(<< <<"app", "foo">> >>)

ServerCtx(proxy) == [role |-> "Server", proxy |-> proxy]

ClientCtx(proxy, labels) == [role |-> "Client", proxy |-> proxy, dst_labels |-> labels]

TransportCtxs ==
    {ServerCtx("Inbound"), ClientCtx("Outbound", None), ClientCtx("Outbound", LabelsFoo)}

Closes ==
    {[duration |-> 5, rx_bytes |-> 100, tx_bytes |-> 200, clean |-> TRUE],
     [duration |-> 70, rx_bytes |-> 0, tx_bytes |-> 1, clean |-> FALSE]}

Requests ==
    {[proxy |-> "Outbound", dst_labels |-> LabelsFoo, authority |-> Some("x")],
     [proxy |-> "Inbound", dst_labels |-> None, authority |-> None]}

Responses ==
    {[request |-> [proxy |-> "Outbound", dst_labels |-> LabelsFoo,
                   authority |-> Some("x")],
      status  |-> 200],
     [request |-> [proxy |-> "Inbound", dst_labels |-> None, authority |-> None],
      status  |-> 500]}

GrpcStatuses == {None, Some(0), Some(2)}

ErrorCodes == {3, 99}

Latencies == {42}

StartTimes == {1500000000}

\* The TransportTree a transport context selects: direction, destination key, role.
TransportPath(ctx) == <<ctx.proxy, dst_snapshot(transport_client(ctx)), ctx.role>>

TransportPaths == {TransportPath(ctx) : ctx \in TransportCtxs}

(***************************************************************************)
(* Root::record, one action per event shape.                               *)
(***************************************************************************)
InitTree ==
    /\ \E t0 \in StartTimes : root = Root_new(t0)
    /\ events = 0
    /\ warnings = [p \in TransportPaths |-> 0]

\* The parts of the state a specification leaves alone.
IdleTree ==
    /\ root = Root_new(0)
    /\ events = 0
    /\ warnings = [p \in TransportPaths |-> 0]

IdleLabels == frag_a = Unit /\ frag_b = Unit /\ frag_out = None

IdleH2 == h2_error = 0 /\ h2_request_reason = None /\ h2_response_reason = None

IdleServe ==
    /\ metrics = None
    /\ lock = None
    /\ poisoned = FALSE
    /\ pc = <<>>
    /\ arg = <<>>
    /\ response = <<>>

IdleDst ==
    /\ pairs_a = <<>>
    /\ pairs_b = <<>>
    /\ dst_a = None
    /\ dst_b = None
    /\ dst_tree = None

IdleGauge == gauge = 0 /\ gauge_was = 0 /\ gauge_op = None

IdleScrape == history = <<>>

IdleCompose == frag_c = Unit /\ composed = None

IdleWatch == watch = None

IdleDesc == desc = None /\ prelude = None

Recorded(event) ==
    /\ events < MaxEvents
    /\ root' = Root_record(root, event)
    /\ events' = events + 1
    /\ UNCHANGED <<labelVars, h2Vars, serveVars, dstVars, gaugeVars, scrapeVars, composeVars,
                   watchVars, descVars>>

TransportOpen ==
    \E ctx \in TransportCtxs :
        /\ Recorded([type |-> "TransportOpen", ctx |-> ctx])
        /\ UNCHANGED warnings

TransportClose ==
    \E ctx \in TransportCtxs, close \in Closes :
        /\ Recorded([type |-> "TransportClose", ctx |-> ctx, close |-> close])
        /\ warnings' =
            IF GaugeDecrWarns(transport_at(root, ctx).open_active)
            THEN [warnings EXCEPT ![TransportPath(ctx)] = @ + 1]
            ELSE warnings

StreamRequestOpen ==
    \E req \in Requests :
        /\ Recorded([type |-> "StreamRequestOpen", req |-> req])
        /\ UNCHANGED warnings

StreamRequestFail ==
    \E req \in Requests, error \in ErrorCodes, since \in Latencies :
        /\ Recorded([type |-> "StreamRequestFail", req |-> req,
                     fail |-> [error |-> error, since_request_open |-> since]])
        /\ UNCHANGED warnings

StreamRequestEnd ==
    \E req \in Requests, since \in Latencies :
        /\ Recorded([type |-> "StreamRequestEnd", req |-> req,
                     end |-> [since_request_open |-> since]])
        /\ UNCHANGED warnings

StreamResponseOpen ==
    \E res \in Responses, since \in Latencies :
        /\ Recorded([type |-> "StreamResponseOpen", res |-> res,
                     open |-> [since_request_open |-> since]])
        /\ UNCHANGED warnings

StreamResponseEnd ==
    \E res \in Responses, grpc \in GrpcStatuses, since \in Latencies :
        /\ Recorded([type |-> "StreamResponseEnd", res |-> res,
                     end |-> [grpc_status |-> grpc, since_request_open |-> since]])
        /\ UNCHANGED warnings

StreamResponseFail ==
    \E res \in Responses, error \in ErrorCodes, since \in Latencies :
        /\ Recorded([type |-> "StreamResponseFail", res |-> res,
                     fail |-> [error |-> error, since_request_open |-> since]])
        /\ UNCHANGED warnings

Init ==
    /\ InitTree /\ IdleLabels /\ IdleH2 /\ IdleServe /\ IdleDst /\ IdleGauge
    /\ IdleScrape /\ IdleCompose /\ IdleWatch /\ IdleDesc

Next ==
    \/ TransportOpen
    \/ TransportClose
    \/ StreamRequestOpen
    \/ StreamRequestFail
    \/ StreamRequestEnd
    \/ StreamResponseOpen
    \/ StreamResponseEnd
    \/ StreamResponseFail

Spec == Init /\ [][Next]_vars

(***************************************************************************)
(* What the claims speak of: the trees, counters and series of a Root.     *)
(***************************************************************************)
ProxyOf(r, proxy) == IF proxy = "Inbound" THEN r.inbound ELSE r.outbound

Proxies == {"Inbound", "Outbound"}

\* Every DstTree of r, with its direction and key.
DstTreesOf(r) ==
    UNION {{[proxy |-> proxy, labels |-> ProxyOf(r, proxy).by_dst[i].k.labels,
             tree |-> ProxyOf(r, proxy).by_dst[i].v]
            : i \in 1..Len(ProxyOf(r, proxy).by_dst)} : proxy \in Proxies}

\* Every TransportTree of r, with its path.
TransportTreesOf(r) ==
    UNION {{[path |-> <<d.proxy, d.labels, "Server">>, tree |-> d.tree.src_tcp_metrics],
            [path |-> <<d.proxy, d.labels, "Client">>, tree |-> d.tree.dst_tcp_metrics]}
           : d \in DstTreesOf(r)}

close_total_of(t, class) ==
    IF contains_key(t.by_end, class) THEN get(t.by_end, class).close_total ELSE 0

closed_total(t) == close_total_of(t, "Success") + close_total_of(t, "Failure")

\* "Gauge underflow" warnings logged for the TransportTree at a path.
Warned(path) == IF path \in DOMAIN warnings THEN warnings[path] ELSE 0

\* Every HttpRequestTree of r, with its path.
HttpRequestTreesOf(r) ==
    UNION {{[proxy |-> d.proxy, labels |-> d.labels,
             authority |-> d.tree.by_http_request[i].k.authority,
             tree |-> d.tree.by_http_request[i].v]
            : i \in 1..Len(d.tree.by_http_request)} : d \in DstTreesOf(r)}

\* Every HttpEndMetrics of r, with its path.
HttpEndMetricsOf(r) ==
    UNION {UNION {{[proxy |-> q.proxy, labels |-> q.labels, authority |-> q.authority,
                    rsp_class |-> q.tree.by_response[i].k,
                    end_class |-> q.tree.by_response[i].v.by_end[j].k,
                    metrics |-> q.tree.by_response[i].v.by_end[j].v]
                   : j \in 1..Len(q.tree.by_response[i].v.by_end)}
                  : i \in 1..Len(q.tree.by_response)}
           : q \in HttpRequestTreesOf(r)}

\* Whether every counter of the tree a is, in the tree b, at the same path and
\* no smaller.
TransportTreeLe(a, b) ==
    /\ U64Le(a.open_total, b.open_total)
    /\ U64Le(a.rx_bytes_total, b.rx_bytes_total)
    /\ U64Le(a.tx_bytes_total, b.tx_bytes_total)
    /\ \A i \in 1..Len(a.by_end) :
          /\ contains_key(b.by_end, a.by_end[i].k)
          /\ U64Le(a.by_end[i].v.close_total, get(b.by_end, a.by_end[i].k).close_total)

HttpResponseTreeLe(a, b) ==
    \A i \in 1..Len(a.by_end) :
        /\ contains_key(b.by_end, a.by_end[i].k)
        /\ U64Le(a.by_end[i].v.total, get(b.by_end, a.by_end[i].k).total)

HttpRequestTreeLe(a, b) ==
    /\ U64Le(a.metrics.total, b.metrics.total)
    /\ \A i \in 1..Len(a.by_response) :
          /\ contains_key(b.by_response, a.by_response[i].k)
          /\ HttpResponseTreeLe(a.by_response[i].v,
                                get(b.by_response, a.by_response[i].k))

DstTreeLe(a, b) ==
    /\ TransportTreeLe(a.src_tcp_metrics, b.src_tcp_metrics)
    /\ TransportTreeLe(a.dst_tcp_metrics, b.dst_tcp_metrics)
    /\ \A i \in 1..Len(a.by_http_request) :
          /\ contains_key(b.by_http_request, a.by_http_request[i].k)
          /\ HttpRequestTreeLe(a.by_http_request[i].v,
                               get(b.by_http_request, a.by_http_request[i].k))

ProxyTreeLe(a, b) ==
    \A i \in 1..Len(a.by_dst) :
        /\ contains_key(b.by_dst, a.by_dst[i].k)
        /\ DstTreeLe(a.by_dst[i].v, get(b.by_dst, a.by_dst[i].k))

CountersLe(a, b) ==
    /\ ProxyTreeLe(a.inbound, b.inbound)
    /\ ProxyTreeLe(a.outbound, b.outbound)

\* The lines of a scrape, as a set.
Lines(r) == LET text == Root_fmt(r) IN {text[i] : i \in 1..Len(text)}

LabelValues(line, key) ==
    {line.labels[i].v : i \in {j \in 1..Len(line.labels) : line.labels[j].k = key}}

LabelCount(line, key) ==
    Cardinality({j \in 1..Len(line.labels) : line.labels[j].k = key})

EndsWith(text, suffix) ==
    /\ Len(text) >= Len(suffix)
    /\ SubSeq(text, Len(text) - Len(suffix) + 1, Len(text)) = suffix

(***************************************************************************)
(* C1.  Claimed: after any sequence of TransportOpen and TransportClose    *)
(* events, a close with no prior open included, every TransportTree has    *)
(* open_active = open_total - (close_total of Success + of Failure).       *)
(***************************************************************************)
C1_ActiveIsOpenedMinusClosed ==
    \A x \in TransportTreesOf(root) :
        x.tree.open_active = x.tree.open_total - closed_total(x.tree)

\* C1 as amended: every TransportTree has open_active = open_total -
\* (close_total of Success + of Failure) + the number of closes recorded in
\* that tree while its open_active was already 0 (each leaves the gauge at 0
\* and logs "Gauge underflow").
C1_ActiveIsOpenedMinusClosedPlusUnderflows ==
    \A x \in TransportTreesOf(root) :
        x.tree.open_active
            = x.tree.open_total - closed_total(x.tree) + Warned(x.path)

\* A tree that saw a close with nothing open, and an open as well.
C1_Witness ==
    \E x \in TransportTreesOf(root) :
        /\ x.tree.open_total >= 1
        /\ closed_total(x.tree) >= 1
        /\ Warned(x.path) >= 1

(***************************************************************************)
(* C3.  Claimed: once a StreamRequestFail is recorded, the scrape holds a  *)
(* response_total series with the entry's count whose labels end with      *)
(* classification="failure", one comma, error="<reason>".                  *)
(***************************************************************************)
C3_RequestFailSeriesHasComma ==
    LET lines == Lines(root)
    IN  \A e \in HttpEndMetricsOf(root) :
        e.rsp_class.tag = "Error" =>
            \E line \in lines :
                /\ line.name = "response_total"
                /\ line.value = e.metrics.total
                /\ EndsWith(line.labels,
                            <<FAILURE_CLASS, Comma, Label("error", e.rsp_class.reason)>>)

(***************************************************************************)
(* C4.  No counter at a given tree path (open_total, rx_bytes_total,       *)
(* tx_bytes_total, close_total, request total, response total) decreases   *)
(* from one state to the next.                                             *)
(***************************************************************************)
C4_CountersNeverDecrease == [][CountersLe(root, root')]_vars

\* A tree closed twice: its byte counters were added to twice.
C4_Witness ==
    \E x \in TransportTreesOf(root) :
        closed_total(x.tree) >= 2 /\ x.tree.tx_bytes_total >= 2

(***************************************************************************)
(* C7.  Every response series carries exactly one classification label:    *)
(* failure for response class Error; for Response{status} success iff      *)
(* status < 500 at end Eos, success iff the gRPC status is 0 at end Grpc    *)
(* (with both status_code and grpc_status_code labels), failure at end      *)
(* Error.                                                                  *)
(***************************************************************************)
ExpectedClassification(rsp_class, end_class) ==
    IF rsp_class.tag = "Error" THEN "failure"
    ELSE CASE end_class.tag = "Eos" ->
                IF rsp_class.status_code < 500 THEN "success" ELSE "failure"
           [] end_class.tag = "Grpc" ->
                IF end_class.status_code = 0 THEN "success" ELSE "failure"
           [] end_class.tag = "Error" -> "failure"

\* The line is the response_total series of the entry e.
IsSeriesOf(line, e) ==
    /\ line.name = "response_total"
    /\ line.value = e.metrics.total
    /\ LabelValues(line, "direction")
        = {IF e.proxy = "Inbound" THEN "inbound" ELSE "outbound"}
    /\ LabelValues(line, "authority") = {e.authority}
    /\ (e.labels = None) = (LabelValues(line, "dst_app") = {})
    /\ LabelValues(line, "status_code")
        = IF e.rsp_class.tag = "Response" /\ e.end_class.tag # "Error"
          THEN {ToString(e.rsp_class.status_code)} ELSE {}
    /\ LabelValues(line, "grpc_status_code")
        = IF e.rsp_class.tag = "Response" /\ e.end_class.tag = "Grpc"
          THEN {ToString(e.end_class.status_code)} ELSE {}
    /\ LabelValues(line, "error")
        = IF e.rsp_class.tag = "Error" THEN {e.rsp_class.reason}
          ELSE IF e.end_class.tag = "Error" THEN {e.end_class.reason} ELSE {}

C7_ClassificationRule ==
    LET lines   == Lines(root)
        entries == HttpEndMetricsOf(root)
    IN  /\ \A e \in entries :
              \E line \in lines :
                  /\ IsSeriesOf(line, e)
                  /\ LabelCount(line, "classification") = 1
                  /\ LabelValues(line, "classification")
                        = {ExpectedClassification(e.rsp_class, e.end_class)}
        /\ \A line \in lines :
              line.name = "response_total" =>
                  \E e \in entries : IsSeriesOf(line, e)

\* A failure by status 500, a success by gRPC status 0 and a request failure.
C7_Witness ==
    /\ \E e \in HttpEndMetricsOf(root) :
          e.end_class.tag = "Eos" /\ e.rsp_class.status_code = 500
    /\ \E e \in HttpEndMetricsOf(root) :
          e.end_class.tag = "Grpc" /\ e.end_class.status_code = 0
    /\ \E e \in HttpEndMetricsOf(root) : e.rsp_class.tag = "Error"

(***************************************************************************)
(* A.append(B) on its own: the fragments the tree's encoder composes.      *)
(***************************************************************************)
Fragments ==
    {Unit,
     Str(<<>>),
     Str(<<Label("direction", "inbound")>>),
     Str(<<Label("peer", "src")>>),
     Str(<<SUCCESS_CLASS>>),
     Fn(<<>>),
     Fn(<<Label("authority", "x")>>),
     Fn(<<FAILURE_CLASS, Comma, Label("error", "CANCEL")>>),
     Opt(None),
     Opt(Some(Dst(LabelsFoo[1]))),
     Dst(LabelsFoo[1]),
     Dst(DstLabels_new(<< <<"app", "foo">>, <<"ns", "prod">> >>)[1]),
     append(Unit, Opt(None)),
     append(Str(<<Label("direction", "outbound")>>), Dst(LabelsFoo[1]))}

InitLabels ==
    /\ frag_a \in Fragments
    /\ frag_b \in Fragments
    /\ frag_out = None
    /\ IdleTree /\ IdleH2 /\ IdleServe /\ IdleDst /\ IdleGauge /\ IdleScrape /\ IdleCompose
    /\ IdleWatch /\ IdleDesc

\* Formatting A.append(B): its is_empty() and the text it writes.
AppendLabels ==
    /\ frag_out = None
    /\ frag_out' = Some([is_empty |-> is_empty(append(frag_a, frag_b)),
                         text     |-> fmt_labels(append(frag_a, frag_b))])
    /\ UNCHANGED <<frag_a, frag_b, treeVars, h2Vars, serveVars, dstVars, gaugeVars, scrapeVars, composeVars,
                   watchVars, descVars>>

NextLabels == AppendLabels

SpecLabels == InitLabels /\ [][NextLabels]_vars

H2Errors == 0..30 \cup {99, 65536, 2147483647}

InitH2 ==
    /\ h2_error \in H2Errors
    /\ h2_request_reason = None
    /\ h2_response_reason = None
    /\ IdleTree /\ IdleLabels /\ IdleServe /\ IdleDst /\ IdleGauge /\ IdleScrape /\ IdleCompose
    /\ IdleWatch /\ IdleDesc

RequestFailReason ==
    /\ h2_request_reason = None
    /\ h2_request_reason' = Some(request_fail_reason(h2_error))
    /\ UNCHANGED <<h2_error, h2_response_reason, treeVars, labelVars, serveVars, dstVars, gaugeVars, scrapeVars, composeVars,
                   watchVars, descVars>>

ResponseFailReason ==
    /\ h2_response_reason = None
    /\ h2_response_reason' = Some(response_fail_reason(h2_error))
    /\ UNCHANGED <<h2_error, h2_request_reason, treeVars, labelVars, serveVars, dstVars, gaugeVars, scrapeVars, composeVars,
                   watchVars, descVars>>

NextH2 ==
    \/ RequestFailReason
    \/ ResponseFailReason

SpecH2 == InitH2 /\ [][NextH2]_vars

(***************************************************************************)
(* C8.  Both fail handlers map an error code c to the c-th of the fifteen  *)
(* reasons when c is an index of the list and to the last, UNKNOWN,        *)
(* otherwise; the two handlers agree.                                      *)
(***************************************************************************)
ReasonList ==
    <<"NO_ERROR", "PROTOCOL_ERROR", "INTERNAL_ERROR", "FLOW_CONTROL_ERROR",
      "SETTINGS_TIMEOUT", "STREAM_CLOSED", "FRAME_SIZE_ERROR", "REFUSED_STREAM",
      "CANCEL", "COMPRESSION_ERROR", "CONNECT_ERROR", "ENHANCE_YOUR_CALM",
      "INADEQUATE_SECURITY", "HTTP_1_1_REQUIRED", "UNKNOWN">>

ExpectedReason(c) == IF c \in 0..14 THEN ReasonList[c + 1] ELSE "UNKNOWN"

C8_ReasonClampedToUnknown ==
    /\ h2_request_reason # None => h2_request_reason[1] = ExpectedReason(h2_error)
    /\ h2_response_reason # None => h2_response_reason[1] = ExpectedReason(h2_error)
    /\ (h2_request_reason # None /\ h2_response_reason # None)
          => h2_request_reason = h2_response_reason

\* A code past the list, mapped by both handlers.
C8_Witness ==
    /\ h2_error = 99
    /\ h2_request_reason = Some("UNKNOWN")
    /\ h2_response_reason = Some("UNKNOWN")

(***************************************************************************)
(* mod.rs: the MetricsTree behind the Arc<Mutex<..>> of Aggregate and      *)
(* Serve.  A call that reaches unimplemented!() panics: its result is      *)
(* None.                                                                   *)
(***************************************************************************)
DefaultTransportMetrics ==
    [accept_open_total |-> 0, accept_close_total |-> 0,
     connect_open_total |-> 0, connect_close_total |-> 0,
     connection_duration |-> DefaultHistogram,
     received_bytes |-> 0, sent_bytes |-> 0]

DefaultDestinationTree == [transport |-> DefaultTransportMetrics, http |-> <<>>]

DefaultHttpTree == [request |-> [total |-> 0], responses |-> <<>>]

\* MetricsTree::new
MetricsTree_new(t0) ==
    [inbound  |-> [by_destination |-> <<>>],
     outbound |-> [by_destination |-> <<>>],
     start_time |-> t0]

\* MetricsTree::proxy_mut: the ProxyTree the &mut refers to.
MetricsTree_proxy_mut(m, proxy) ==
    IF proxy = "Inbound" THEN m.inbound ELSE m.outbound

\* The MetricsTree after p is written through the &mut of proxy_mut.
MetricsTree_proxy_set(m, proxy, p) ==
    IF proxy = "Inbound" THEN [m EXCEPT !.inbound = p]
    ELSE [m EXCEPT !.outbound = p]

\* ProxyTree::destination_mut: the DestinationTree the &mut refers to.
destination_mut(p, ctx) ==
    entry_get(p.by_destination, [labels |-> dst_snapshot(ctx)],
              DefaultDestinationTree)

\* The ProxyTree after d is written through the &mut of destination_mut.
destination_set(p, ctx, d) ==
    [p EXCEPT !.by_destination =
        entry_set(@, [labels |-> dst_snapshot(ctx)], DefaultDestinationTree, d)]

\* DestinationTree::http_request_mut: the HttpTree the &mut refers to.
DestinationTree_http_request_mut(d, req) ==
    entry_get(d.http, [authority |-> request_authority(req)], DefaultHttpTree)

\* The DestinationTree after t is written through the &mut of
\* http_request_mut.
DestinationTree_http_request_set(d, req, t) ==
    [d EXCEPT !.http =
        entry_set(@, [authority |-> request_authority(req)], DefaultHttpTree, t)]

\* HttpTree::open
HttpTree_open(t) == None

\* HttpTree::end
HttpTree_end(t, end) == Some(t)

\* HttpTree::fail
HttpTree_fail(t, fail) == None

\* TransportMetrics::open
TransportMetrics_open(t) == None

\* TransportMetrics::close
TransportMetrics_close(t, close) == None

\* The value a call leaves in place: the one it returned, or, when it
\* panicked, the one it was given.
Kept(t, out) == IF out = None THEN t ELSE out[1]

\* The TransportMetrics MetricsTree::record reaches for a transport context:
\* proxy_mut, destination_mut, transport_mut.
MetricsTree_transport(m, ctx) ==
    destination_mut(MetricsTree_proxy_mut(m, ctx.proxy),
                    transport_client(ctx)).transport

\* The MetricsTree after t is written through that &mut.
MetricsTree_transport_set(m, ctx, t) ==
    LET p == MetricsTree_proxy_mut(m, ctx.proxy)
        d == destination_mut(p, transport_client(ctx))
    IN  MetricsTree_proxy_set(m, ctx.proxy,
            destination_set(p, transport_client(ctx),
                            [d EXCEPT !.transport = t]))

\* The HttpTree MetricsTree::record reaches for a request:
\* proxy_mut, destination_mut, http_request_mut.
MetricsTree_request(m, req) ==
    DestinationTree_http_request_mut(
        destination_mut(MetricsTree_proxy_mut(m, req.proxy),
                        request_client(req)), req)

\* The MetricsTree after t is written through that &mut.
MetricsTree_request_set(m, req, t) ==
    LET p == MetricsTree_proxy_mut(m, req.proxy)
        d == destination_mut(p, request_client(req))
    IN  MetricsTree_proxy_set(m, req.proxy,
            destination_set(p, request_client(req),
                            DestinationTree_http_request_set(d, req, t)))

\* A call of MetricsTree::record that ended with out on the HttpTree of req.
Requested(m, req, out) ==
    [tree |-> MetricsTree_request_set(m, req,
                  Kept(MetricsTree_request(m, req), out)),
     panicked |-> out = None]

\* A call of MetricsTree::record that ended with out on the TransportMetrics
\* of ctx.
Transported(m, ctx, out) ==
    [tree |-> MetricsTree_transport_set(m, ctx,
                  Kept(MetricsTree_transport(m, ctx), out)),
     panicked |-> out = None]

\* MetricsTree::record: the tree it leaves and whether it panicked.
\* DestinationTree::http_response_mut looks the request up and then panics.
MetricsTree_record(m, event) ==
    CASE event.type = "StreamRequestOpen" ->
            Requested(m, event.req,
                HttpTree_open(MetricsTree_request(m, event.req)))
      [] event.type = "StreamRequestFail" ->
            Requested(m, event.req,
                HttpTree_fail(MetricsTree_request(m, event.req), event.fail))
      [] event.type = "StreamRequestEnd" ->
            Requested(m, event.req,
                HttpTree_end(MetricsTree_request(m, event.req), event.end))
      [] event.type \in {"StreamResponseOpen", "StreamResponseEnd",
                         "StreamResponseFail"} ->
            Requested(m, event.res.request, None)
      [] event.type = "TransportOpen" ->
            Transported(m, event.ctx,
                TransportMetrics_open(MetricsTree_transport(m, event.ctx)))
      [] event.type = "TransportClose" ->
            Transported(m, event.ctx,
                TransportMetrics_close(MetricsTree_transport(m, event.ctx),
                                       event.close))

\* Serve::prometheus_metrics: the body, or None for a panic.
prometheus_metrics(m) == None

\* The response Serve::call gives for a path other than /metrics.
NotFoundResponse == [status |-> "404 Not Found", headers |-> {}, body |-> <<>>]

\* The response Serve::call builds around the body.
BodyResponse(body) ==
    [status  |-> "200 OK",
     headers |-> {<<"Content-Length", ToString(Len(body))>>,
                  <<"Content-Type", "text/plain; charset=utf-8">>},
     body    |-> body]

(***************************************************************************)
(* The tasks: event producers calling Aggregate::record_event and the HTTP *)
(* runtime calling Serve::call, in any interleaving.                       *)
(***************************************************************************)
Recorders == {"producer1", "producer2"}

Scrapers == {"scrape1"}

Tasks == Recorders \cup Scrapers

RecordedEvents ==
    {[type |-> "TransportOpen", ctx |-> ctx] : ctx \in TransportCtxs}
    \cup {[type |-> "TransportClose", ctx |-> ClientCtx("Outbound", LabelsFoo),
           close |-> close] : close \in Closes}
    \cup {[type |-> "StreamRequestOpen", req |-> req] : req \in Requests}
    \cup {[type |-> "StreamRequestEnd", req |-> req,
           end |-> [since_request_open |-> 42]] : req \in Requests}
    \cup {[type |-> "StreamRequestFail", req |-> req,
           fail |-> [error |-> 3, since_request_open |-> 42]] : req \in Requests}
    \cup {[type |-> "StreamResponseOpen", res |-> res,
           open |-> [since_request_open |-> 42]] : res \in Responses}
    \cup {[type |-> "StreamResponseEnd", res |-> res,
           end |-> [grpc_status |-> None, since_request_open |-> 42]]
          : res \in Responses}
    \cup {[type |-> "StreamResponseFail", res |-> res,
           fail |-> [error |-> 3, since_request_open |-> 42]] : res \in Responses}

\* Accept-Encoding: quality items, q in thousandths.
AcceptEncodings ==
    {None,
     Some(<<[coding |-> "gzip", q |-> 900], [coding |-> "identity", q |-> 100]>>),
     Some(<<[coding |-> "gzip", q |-> 0]>>)}

HttpRequests ==
    [method : {"GET", "POST"}, path : {"/metrics", "/"},
     accept_encoding : AcceptEncodings]

InitServe ==
    /\ \E t0 \in StartTimes : metrics = MetricsTree_new(t0)
    /\ lock = None
    /\ poisoned = FALSE
    /\ pc = [t \in Tasks |-> "idle"]
    /\ arg = [t \in Tasks |-> None]
    /\ response = [t \in Scrapers |-> None]
    /\ IdleTree /\ IdleLabels /\ IdleH2 /\ IdleDst /\ IdleGauge /\ IdleScrape /\ IdleCompose
    /\ IdleWatch /\ IdleDesc

\* Aggregate::record_event: self.metrics.lock().expect("metrics lock").
\* A poisoned mutex makes lock() an Err and expect panic.
RecordEventLock ==
    \E t \in Recorders, event \in RecordedEvents :
        /\ pc[t] = "idle"
        /\ lock = None
        /\ arg' = [arg EXCEPT ![t] = Some(event)]
        /\ IF poisoned
           THEN pc' = [pc EXCEPT ![t] = "panicked"] /\ UNCHANGED lock
           ELSE pc' = [pc EXCEPT ![t] = "record"] /\ lock' = Some(t)
        /\ UNCHANGED <<metrics, poisoned, response, treeVars, labelVars, h2Vars, dstVars, gaugeVars, scrapeVars, composeVars,
                   watchVars, descVars>>

\* Aggregate::record_event: .record(event), then the guard is dropped; a
\* panic poisons the mutex as the guard is dropped.
RecordEventRecord ==
    \E t \in Recorders :
        /\ pc[t] = "record"
        /\ lock = Some(t)
        /\ LET out == MetricsTree_record(metrics, arg[t][1])
           IN  /\ metrics' = out.tree
               /\ poisoned' = out.panicked
               /\ pc' = [pc EXCEPT ![t] = IF out.panicked THEN "panicked" ELSE "idle"]
        /\ lock' = None
        /\ UNCHANGED <<arg, response, treeVars, labelVars, h2Vars, dstVars, gaugeVars, scrapeVars, composeVars,
                   watchVars, descVars>>

\* Serve::call up to its call of prometheus_metrics.
ServeCall ==
    \E t \in Scrapers, req \in HttpRequests :
        /\ pc[t] = "idle"
        /\ arg' = [arg EXCEPT ![t] = Some(req)]
        /\ IF req.path # "/metrics"
           THEN /\ response' = [response EXCEPT ![t] = Some(NotFoundResponse)]
                /\ UNCHANGED pc
           ELSE /\ response' = [response EXCEPT ![t] = None]
                /\ pc' = [pc EXCEPT ![t] = "prometheus_metrics"]
        /\ UNCHANGED <<metrics, lock, poisoned, treeVars, labelVars, h2Vars, dstVars, gaugeVars, scrapeVars, composeVars,
                   watchVars, descVars>>

\* Serve::call from prometheus_metrics on.
ServePrometheusMetrics ==
    \E t \in Scrapers :
        /\ pc[t] = "prometheus_metrics"
        /\ LET body == prometheus_metrics(metrics)
           IN  IF body = None
               THEN /\ pc' = [pc EXCEPT ![t] = "panicked"]
                    /\ UNCHANGED response
               ELSE /\ pc' = [pc EXCEPT ![t] = "idle"]
                    /\ response' = [response EXCEPT ![t] = Some(BodyResponse(body[1]))]
        /\ UNCHANGED <<metrics, lock, poisoned, arg, treeVars, labelVars, h2Vars, dstVars, gaugeVars, scrapeVars, composeVars,
                   watchVars, descVars>>

NextServe ==
    \/ RecordEventLock
    \/ RecordEventRecord
    \/ ServeCall
    \/ ServePrometheusMetrics

SpecServe == InitServe /\ [][NextServe]_vars

\* Claim C5: every tree mutation and every encode pass runs while its task
\* holds the single mutex over the tree, so a scrape encodes the tree as it
\* is after a whole number of completed record calls.
C5_RecordAndScrapeHoldTheMutex ==
    /\ \A t \in Recorders : pc[t] = "record" => lock = Some(t)
    /\ \A t \in Scrapers : pc[t] = "prometheus_metrics" => lock = Some(t)

\* Claim C6: recording an event of any shape in any reachable tree returns
\* normally: no call of record_event ends in a panic.
C6_RecordNeverPanics ==
    \A t \in Recorders : pc[t] # "panicked"

\* Claim C9: a request whose path is not /metrics or whose method is not
\* GET is answered 404 with an empty body, and a 200 response is only ever
\* given to GET /metrics.
C9_OnlyGetMetricsIsServed ==
    \A t \in Scrapers :
        arg[t] # None =>
            LET req == arg[t][1]
            IN  IF req.method = "GET" /\ req.path = "/metrics"
                THEN TRUE
                ELSE /\ pc[t] = "idle"
                     /\ response[t] = Some(NotFoundResponse)

\* The request accepts gzip: Accept-Encoding lists gzip with q > 0.
AcceptsGzip(req) ==
    /\ req.accept_encoding # None
    /\ \E i \in 1..Len(req.accept_encoding[1]) :
          /\ req.accept_encoding[1][i].coding = "gzip"
          /\ req.accept_encoding[1][i].q > 0

\* Claim C10: GET /metrics is answered, with Content-Type text/plain, and
\* with Content-Encoding: gzip exactly when the request accepts gzip.
C10_GzipIffAccepted ==
    \A t \in Scrapers :
        (arg[t] # None /\ arg[t][1].method = "GET" /\ arg[t][1].path = "/metrics") =>
            /\ pc[t] # "panicked"
            /\ pc[t] = "idle" =>
                  /\ response[t] # None
                  /\ \E h \in response[t][1].headers :
                        h = <<"Content-Type", "text/plain; charset=utf-8">>
                  /\ (<<"Content-Encoding", "gzip">> \in response[t][1].headers)
                        <=> AcceptsGzip(arg[t][1])

(***************************************************************************)
(* help.rs: the descriptions of the metric families.  A description line   *)
(* is [line |-> "HELP", name, help], [line |-> "TYPE", name, kind] or      *)
(* [line |-> ""], the empty line a Section writes after each Help.         *)
(***************************************************************************)
HTTP ==
    <<[kind |-> "counter", name |-> "request_total",
       help |-> "A counter of the number of requests the proxy has received."],
      [kind |-> "counter", name |-> "response_total",
       help |-> "A counter of the number of responses the proxy has received."],
      [kind |-> "histogram", name |-> "response_latency_ms",
       help |-> "A histogram of the total latency of a response. This is measured from when the request headers are received to when the response stream has completed."]>>

TCP ==
    <<[kind |-> "counter", name |-> "tcp_accept_open_total",
       help |-> "A counter of the total number of transport connections which have been accepted by the proxy."],
      [kind |-> "counter", name |-> "tcp_accept_close_total",
       help |-> "A counter of the total number of transport connections accepted by the proxy which have been closed."],
      [kind |-> "counter", name |-> "tcp_connect_open_total",
       help |-> "A counter of the total number of transport connections which have been opened by the proxy."],
      [kind |-> "counter", name |-> "tcp_connect_close_total",
       help |-> "A counter of the total number of transport connections opened by the proxy which have been closed."],
      [kind |-> "histogram", name |-> "tcp_connection_duration_ms",
       help |-> "A histogram of the duration of the lifetime of a connection, in milliseconds"],
      [kind |-> "counter", name |-> "received_bytes",
       help |-> "A counter of the total number of recieved bytes."],
      [kind |-> "counter", name |-> "sent_bytes",
       help |-> "A counter of the total number of sent bytes."]>>

\* Display for Help
Help_fmt(h) ==
    <<[line |-> "HELP", name |-> h.name, help |-> h.help],
      [line |-> "TYPE", name |-> h.name, kind |-> h.kind]>>

\* Display for Section
Section_fmt(section) ==
    concat([i \in 1..Len(section) |-> Help_fmt(section[i]) \o <<[line |-> ""]>>])

\* The family a sample line belongs to: a histogram's sum and count lines
\* belong to the histogram.
FamilyOf(name) ==
    CASE name \in {"response_latency_ms_sum", "response_latency_ms_count"} ->
            "response_latency_ms"
      [] name \in {"tcp_connection_duration_ms_sum",
                   "tcp_connection_duration_ms_count"} ->
            "tcp_connection_duration_ms"
      [] OTHER -> name

IsSample(l) == "value" \in DOMAIN l

\* The description lines help.rs can write for a family.
HelpLines(family) ==
    {l \in {Section_fmt(HTTP \o TCP)[i] : i \in 1..Len(Section_fmt(HTTP \o TCP))} :
        l.line = "HELP" /\ l.name = family}

TypeLines(family) ==
    {l \in {Section_fmt(HTTP \o TCP)[i] : i \in 1..Len(Section_fmt(HTTP \o TCP))} :
        l.line = "TYPE" /\ l.name = family}

\* Claim C11: in the scrape text, every metric family that has a sample
\* line has exactly one HELP line and exactly one TYPE line, and both come
\* before every sample line of the family.
C11_OneHelpAndTypeBeforeSamples ==
    LET text == Root_fmt(root)
    IN  \A i \in 1..Len(text) :
            IsSample(text[i]) =>
                LET family == FamilyOf(text[i].name)
                    helps  == {j \in 1..Len(text) : text[j] \in HelpLines(family)}
                    types  == {j \in 1..Len(text) : text[j] \in TypeLines(family)}
                IN  /\ Cardinality(helps) = 1
                    /\ Cardinality(types) = 1
                    /\ \A j \in helps \cup types : j < i

(***************************************************************************)
(* labels.rs: DstLabels::new character by character.  Keys, values and the *)
(* formatted string are sequences of characters here, so that what the     *)
(* format! calls write can be compared and read back as text.              *)
(***************************************************************************)
\* format!("dst_{}=\"{}\"", k, v)
format_first(k, v) == <<"d", "s", "t", "_">> \o k \o <<"=", "\"">> \o v \o <<"\"">>

\* write!(s, ",dst_{}=\"{}\"", k, v)
format_next(k, v) == <<",">> \o format_first(k, v)

RECURSIVE formatted_text(_)
\* The String s of DstLabels::new for a non-empty sequence of pairs.
formatted_text(pairs) ==
    IF Len(pairs) = 1
    THEN format_first(pairs[1][1], pairs[1][2])
    ELSE formatted_text(SubSeq(pairs, 1, Len(pairs) - 1))
         \o format_next(pairs[Len(pairs)][1], pairs[Len(pairs)][2])

\* DstLabels::new, with formatted as text.
DstLabels_new_text(pairs) ==
    IF pairs = <<>> THEN None
    ELSE Some([formatted |-> formatted_text(pairs),
               original  |-> dst_original(pairs)])

\* #[derive(Eq, PartialEq)] on DstLabels: every field is compared.
DstLabels_eq(a, b) == a.formatted = b.formatted /\ a.original = b.original

\* impl Hash for DstLabels: what is fed to the Hasher.
DstLabels_hash(a) == a.formatted

\* The pairs handed to DstLabels::new.
PairSeqs ==
    {<<>>,
     << <<<<"a">>, <<"1">>>> >>,
     << <<<<"a">>, <<"1">>>>, <<<<"b">>, <<"2">>>> >>,
     << <<<<"b">>, <<"2">>>>, <<<<"a">>, <<"1">>>> >>,
     << <<<<"a">>, <<"1">>>>, <<<<"a">>, <<"2">>>> >>,
     << <<<<"a">>, <<"1", "\"", ",", "d", "s", "t", "_", "b", "=", "\"", "2">>>> >>,
     << <<<<"a">>, <<"x", "\"", "y">>>> >>,
     << <<<<"a">>, <<"x", "\\", "y">>>> >>,
     << <<<<"a">>, <<"x", "\n", "y">>>> >>}

InitDst ==
    /\ pairs_a \in PairSeqs
    /\ pairs_b \in PairSeqs
    /\ dst_a = None
    /\ dst_b = None
    /\ dst_tree = None
    /\ IdleTree /\ IdleLabels /\ IdleH2 /\ IdleServe /\ IdleGauge /\ IdleScrape /\ IdleCompose
    /\ IdleWatch /\ IdleDesc

\* DstLabels::new called on each of the two sequences of pairs.
DstLabelsNew ==
    /\ dst_a = None
    /\ dst_a' = Some(DstLabels_new_text(pairs_a))
    /\ dst_b' = Some(DstLabels_new_text(pairs_b))
    /\ UNCHANGED <<pairs_a, pairs_b, dst_tree, treeVars, labelVars, h2Vars,
                   serveVars, gaugeVars, scrapeVars, composeVars,
                   watchVars, descVars>>

\* ProxyTree::dst_mut for a client with the first labels, then for a client
\* with the second, on an empty ProxyTree.
DstMutBoth ==
    /\ dst_a # None
    /\ dst_tree = None
    /\ LET ca == Some([dst_labels |-> dst_a[1]])
           cb == Some([dst_labels |-> dst_b[1]])
           p1 == dst_set(DefaultProxyTree, ca, dst_mut(DefaultProxyTree, ca))
       IN  dst_tree' = Some(dst_set(p1, cb, dst_mut(p1, cb)))
    /\ UNCHANGED <<pairs_a, pairs_b, dst_a, dst_b, treeVars, labelVars, h2Vars,
                   serveVars, gaugeVars, scrapeVars, composeVars,
                   watchVars, descVars>>

NextDst ==
    \/ DstLabelsNew
    \/ DstMutBoth

SpecDst == InitDst /\ [][NextDst]_vars

\* Both calls of DstLabels::new were made and returned labels.
BothLabels == dst_a # None /\ dst_a[1] # None /\ dst_b[1] # None

\* Claim C12: two DstLabels are equal iff their formatted strings are
\* equal, their hash is that of the formatted string alone, and two with
\* the same formatted string are one DstClass key in the tree whatever
\* their original maps.
C12_IdentityIsTheFormattedString ==
    BothLabels =>
        LET a == dst_a[1][1]
            b == dst_b[1][1]
        IN  /\ DstLabels_eq(a, b) <=> (a.formatted = b.formatted)
            /\ (a.formatted = b.formatted) => DstLabels_hash(a) = DstLabels_hash(b)
            /\ (dst_tree # None /\ a.formatted = b.formatted)
                  => Len(dst_tree[1].by_dst) = 1

(***************************************************************************)
(* A tokenizer of Prometheus label text: key="value" items separated by    *)
(* commas; inside a value \\ is a backslash, \" a double quote and \n a    *)
(* newline, and an unescaped newline is not allowed.                       *)
(***************************************************************************)
Unreadable == [ok |-> FALSE]

RECURSIVE ReadKey(_, _)
\* The key up to "=", and the text after it.
ReadKey(cs, acc) ==
    IF cs = <<>> \/ Head(cs) \in {"\"", ",", "\n"} THEN Unreadable
    ELSE IF Head(cs) = "=" THEN [ok |-> acc # <<>>, key |-> acc, rest |-> Tail(cs)]
    ELSE ReadKey(Tail(cs), Append(acc, Head(cs)))

RECURSIVE ReadValue(_, _)
\* The value up to its closing quote, and the text after it.
ReadValue(cs, acc) ==
    IF cs = <<>> \/ Head(cs) = "\n" THEN Unreadable
    ELSE IF Head(cs) = "\"" THEN [ok |-> TRUE, value |-> acc, rest |-> Tail(cs)]
    ELSE IF Head(cs) = "\\"
         THEN IF Len(cs) < 2 THEN Unreadable
              ELSE IF cs[2] = "n"
                   THEN ReadValue(SubSeq(cs, 3, Len(cs)), Append(acc, "\n"))
              ELSE IF cs[2] \in {"\\", "\""}
                   THEN ReadValue(SubSeq(cs, 3, Len(cs)), Append(acc, cs[2]))
              ELSE Unreadable
    ELSE ReadValue(Tail(cs), Append(acc, Head(cs)))

RECURSIVE ReadLabels(_, _)
\* The pairs of a label text, after the pairs acc already read.
ReadLabels(cs, acc) ==
    LET k == ReadKey(cs, <<>>)
    IN  IF ~k.ok \/ k.rest = <<>> \/ Head(k.rest) # "\"" THEN Unreadable
        ELSE LET v == ReadValue(Tail(k.rest), <<>>)
             IN  IF ~v.ok THEN Unreadable
                 ELSE IF v.rest = <<>>
                      THEN [ok |-> TRUE, pairs |-> Append(acc, <<k.key, v.value>>)]
                 ELSE IF Head(v.rest) # "," THEN Unreadable
                 ELSE ReadLabels(Tail(v.rest), Append(acc, <<k.key, v.value>>))

\* The pairs, each key prefixed by dst_.
Prefixed(pairs) ==
    [i \in 1..Len(pairs) |-> <<<<"d", "s", "t", "_">> \o pairs[i][1], pairs[i][2]>>]

\* Claim C13: the formatted string of DstLabels::new, read by a Prometheus
\* label tokenizer, gives back the pairs in order, each key prefixed by
\* dst_, whatever characters the values hold.
C13_FormattedReadsBackAsThePairs ==
    (dst_a # None /\ dst_a[1] # None) =>
        ReadLabels(dst_a[1][1].formatted, <<>>) =
            [ok |-> TRUE, pairs |-> Prefixed(pairs_a)]

\* The round trip for values without a quote, a backslash or a newline.
C13_PlainValuesReadBack ==
    (dst_a # None /\ dst_a[1] # None
        /\ \A i \in 1..Len(pairs_a) : \A j \in 1..Len(pairs_a[i][2]) :
              pairs_a[i][2][j] \notin {"\"", "\\", "\n"}) =>
        ReadLabels(dst_a[1][1].formatted, <<>>) =
            [ok |-> TRUE, pairs |-> Prefixed(pairs_a)]

(***************************************************************************)
(* gauge.rs: a Gauge on its own, incremented and decremented from values   *)
(* next to 0 and next to the u64 maximum.                                  *)
(***************************************************************************)
MaxGaugeOps == 6

GaugeValues == {0, 1, 2, U64_MAX - 2, U64_MAX - 1, U64_MAX}

InitGauge ==
    /\ gauge \in GaugeValues
    /\ gauge_was = gauge
    /\ gauge_op = None
    /\ IdleTree /\ IdleLabels /\ IdleH2 /\ IdleServe /\ IdleDst
    /\ IdleScrape /\ IdleCompose
    /\ IdleWatch /\ IdleDesc

\* The number of operations made so far.
GaugeOps == IF gauge_op = None THEN 0 ELSE gauge_op[1].n

\* Gauge::incr
GaugeIncrAction ==
    /\ GaugeOps < MaxGaugeOps
    /\ gauge_was' = gauge
    /\ gauge' = GaugeIncr(gauge)
    /\ gauge_op' = Some([op |-> "incr", warned |-> GaugeIncrWarns(gauge),
                         n |-> GaugeOps + 1])
    /\ UNCHANGED <<treeVars, labelVars, h2Vars, serveVars, dstVars, scrapeVars,
                   composeVars,
                   watchVars, descVars>>

\* Gauge::decr
GaugeDecrAction ==
    /\ GaugeOps < MaxGaugeOps
    /\ gauge_was' = gauge
    /\ gauge' = GaugeDecr(gauge)
    /\ gauge_op' = Some([op |-> "decr", warned |-> GaugeDecrWarns(gauge),
                         n |-> GaugeOps + 1])
    /\ UNCHANGED <<treeVars, labelVars, h2Vars, serveVars, dstVars, scrapeVars,
                   composeVars,
                   watchVars, descVars>>

NextGauge ==
    \/ GaugeIncrAction
    \/ GaugeDecrAction

SpecGauge == InitGauge /\ [][NextGauge]_vars

\* Claim C14: incr at the u64 maximum leaves the maximum and decr at 0
\* leaves 0, each with a warning; anywhere else incr adds exactly 1 and decr
\* subtracts exactly 1; no operation wraps around.
C14_GaugeSaturates ==
    gauge_op # None =>
        /\ gauge_op[1].op = "incr" =>
              IF gauge_was = U64_MAX
              THEN gauge = U64_MAX /\ gauge_op[1].warned
              ELSE gauge = gauge_was + 1 /\ ~gauge_op[1].warned
        /\ gauge_op[1].op = "decr" =>
              IF gauge_was = 0
              THEN gauge = 0 /\ gauge_op[1].warned
              ELSE gauge = gauge_was - 1 /\ ~gauge_op[1].warned

\* An incr found the Gauge at the maximum, left it there and warned, after
\* earlier operations.
C14_Witness ==
    /\ gauge_op # None
    /\ gauge_op[1].op = "incr"
    /\ gauge_op[1].n >= 2
    /\ gauge_op[1].warned
    /\ gauge_was = U64_MAX
    /\ gauge = U64_MAX

(***************************************************************************)
(* C15.  The keys of every child mapping only grow.                        *)
(***************************************************************************)
\* The entries of the mapping a are, in the same order, the first entries of
\* the mapping b, which has at most one more.
KeysKept(a, b) ==
    /\ Len(a) <= Len(b)
    /\ Len(b) <= Len(a) + 1
    /\ \A i \in 1..Len(a) : a[i].k = b[i].k

HttpRequestTreeKeysKept(a, b) ==
    /\ KeysKept(a.by_response, b.by_response)
    /\ \A i \in 1..Len(a.by_response) :
          KeysKept(a.by_response[i].v.by_end, b.by_response[i].v.by_end)

DstTreeKeysKept(a, b) ==
    /\ KeysKept(a.src_tcp_metrics.by_end, b.src_tcp_metrics.by_end)
    /\ KeysKept(a.dst_tcp_metrics.by_end, b.dst_tcp_metrics.by_end)
    /\ KeysKept(a.by_http_request, b.by_http_request)
    /\ \A i \in 1..Len(a.by_http_request) :
          HttpRequestTreeKeysKept(a.by_http_request[i].v, b.by_http_request[i].v)

ProxyTreeKeysKept(a, b) ==
    /\ KeysKept(a.by_dst, b.by_dst)
    /\ \A i \in 1..Len(a.by_dst) : DstTreeKeysKept(a.by_dst[i].v, b.by_dst[i].v)

\* Claim C15: a tree that recorded no event has no entry; every record call
\* keeps every entry of every child mapping in place, adds at most one key
\* to a mapping, and resets no entry (no counter of a kept entry goes down).
C15_KeySetsOnlyGrow ==
    [][/\ events = 0 => (root.inbound.by_dst = <<>> /\ root.outbound.by_dst = <<>>)
       /\ ProxyTreeKeysKept(root.inbound, root'.inbound)
       /\ ProxyTreeKeysKept(root.outbound, root'.outbound)
       /\ CountersLe(root, root')]_vars

\* Three events made three destinations of one proxy, in the order of their
\* first events.
C15_Witness ==
    /\ Len(root.outbound.by_dst) = 2
    /\ root.outbound.by_dst[1].k = DstClass(LabelsFoo)
    /\ root.outbound.by_dst[2].k = DstClass(None)
    /\ Len(root.outbound.by_dst[1].v.by_http_request) = 1

(***************************************************************************)
(* C16.  The scrape text as a function of the events recorded.  One Root   *)
(* is given events of one direction that resolve to sibling keys of each   *)
(* mapping: two destinations, two authorities of one destination, the two  *)
(* ends of one transport, two statuses of one request.                     *)
(***************************************************************************)
RequestTo(authority) ==
    [proxy |-> "Outbound", dst_labels |-> LabelsFoo, authority |-> Some(authority)]

ScrapeEvents ==
    {[type |-> "TransportOpen", ctx |-> ClientCtx("Outbound", labels)]
        : labels \in {None, LabelsFoo}}
    \cup {[type |-> "TransportClose", ctx |-> ClientCtx("Outbound", LabelsFoo),
           close |-> close] : close \in Closes}
    \cup {[type |-> "StreamRequestOpen", req |-> RequestTo(authority)]
            : authority \in {"x", "y"}}
    \cup {[type |-> "StreamResponseEnd",
           res  |-> [request |-> RequestTo("x"), status |-> status],
           end  |-> [grpc_status |-> None, since_request_open |-> 42]]
            : status \in {200, 500}}

InitScrape ==
    /\ InitTree
    /\ history = <<>>
    /\ IdleLabels /\ IdleH2 /\ IdleServe /\ IdleDst /\ IdleGauge /\ IdleCompose
    /\ IdleWatch /\ IdleDesc

\* Root::record, with the call remembered.
RecordInOrder ==
    \E event \in ScrapeEvents :
        /\ events < MaxEvents
        /\ root' = Root_record(root, event)
        /\ events' = events + 1
        /\ history' = Append(history, event)
        /\ warnings' =
            IF /\ event.type = "TransportClose"
               /\ GaugeDecrWarns(transport_at(root, event.ctx).open_active)
            THEN [warnings EXCEPT ![TransportPath(event.ctx)] = @ + 1]
            ELSE warnings
        /\ UNCHANGED <<labelVars, h2Vars, serveVars, dstVars, gaugeVars, composeVars, watchVars, descVars>>

NextScrape == RecordInOrder

SpecScrape == InitScrape /\ [][NextScrape]_vars

\* A second Root with the same start time, given the same events.
RECURSIVE Replay(_, _)
Replay(r, evs) ==
    IF evs = <<>> THEN r ELSE Replay(Root_record(r, Head(evs)), Tail(evs))

\* The distinct elements of xs, in the order of their first occurrence.
RECURSIVE FirstSeen(_)
FirstSeen(xs) ==
    IF xs = <<>> THEN <<>>
    ELSE LET rest == FirstSeen(SubSeq(xs, 1, Len(xs) - 1))
             last == xs[Len(xs)]
         IN  IF \E i \in 1..Len(rest) : rest[i] = last THEN rest
             ELSE Append(rest, last)

\* The value of the label key on a line, if the line has it.
LabelOf(line, key) ==
    IF LabelCount(line, key) = 0 THEN None
    ELSE Some(CHOOSE v \in LabelValues(line, key) : TRUE)

\* The siblings of one mapping are told apart in the text by one label:
\* destinations by dst_app (absent for the destination without labels),
\* requests by authority, transport ends by the classification of
\* tcp_close_total, responses by status_code.
SiblingLabels == {"dst_app", "authority", "classification", "status_code"}

\* Whether a line belongs to an entry of the mapping told apart by key.
SiblingLine(line, key) ==
    CASE key = "dst_app"        -> LabelCount(line, "direction") = 1
      [] key = "classification" -> line.name = "tcp_close_total"
      [] OTHER                  -> LabelCount(line, key) = 1

\* The sibling each line of the text belongs to, line by line.
RECURSIVE SiblingsEmitted(_, _)
SiblingsEmitted(text, key) ==
    IF text = <<>> THEN <<>>
    ELSE (IF SiblingLine(Head(text), key) THEN <<LabelOf(Head(text), key)>>
          ELSE <<>>)
         \o SiblingsEmitted(Tail(text), key)

\* The sibling an event resolves to in the mapping told apart by key, if the
\* event reaches that mapping.
SiblingResolved(event, key) ==
    CASE key = "dst_app" ->
            LET labels == IF event.type \in {"TransportOpen", "TransportClose"}
                          THEN event.ctx.dst_labels
                          ELSE IF event.type = "StreamRequestOpen"
                          THEN event.req.dst_labels
                          ELSE event.res.request.dst_labels
            IN  <<IF labels = None THEN None ELSE Some("foo")>>
      [] key = "authority" ->
            IF event.type = "StreamRequestOpen" THEN <<event.req.authority>>
            ELSE IF event.type = "StreamResponseEnd"
            THEN <<event.res.request.authority>>
            ELSE <<>>
      [] key = "classification" ->
            IF event.type = "TransportClose"
            THEN <<Some(IF event.close.clean THEN "success" ELSE "failure")>>
            ELSE <<>>
      [] key = "status_code" ->
            IF event.type = "StreamResponseEnd"
            THEN <<Some(ToString(event.res.status))>>
            ELSE <<>>

\* The siblings the events resolve to, event by event.
RECURSIVE SiblingsResolved(_, _)
SiblingsResolved(evs, key) ==
    IF evs = <<>> THEN <<>>
    ELSE SiblingResolved(Head(evs), key) \o SiblingsResolved(Tail(evs), key)

C17_NoLabelHasAnEmptyValue ==
    \A line \in Lines(root) :
        \A i \in 1..Len(line.labels) :
            line.labels[i] # Comma => line.labels[i].v # ""

InitCompose ==
    /\ frag_a \in Fragments
    /\ frag_b \in Fragments
    /\ frag_c \in Fragments
    /\ composed = None
    /\ frag_out = None
    /\ IdleTree /\ IdleH2 /\ IdleServe /\ IdleDst /\ IdleGauge /\ IdleScrape
    /\ IdleWatch /\ IdleDesc

\* is_empty() of a fragment and the text it writes.
Formatted(l) == [is_empty |-> is_empty(l), text |-> fmt_labels(l)]

\* Formatting both groupings.
ComposeLabels ==
    /\ composed = None
    /\ composed' =
          Some([left  |-> Formatted(append(append(frag_a, frag_b), frag_c)),
                right |-> Formatted(append(frag_a, append(frag_b, frag_c)))])
    /\ UNCHANGED <<frag_a, frag_b, frag_c, frag_out, treeVars, h2Vars, serveVars,
                   dstVars, gaugeVars, scrapeVars,
                   watchVars, descVars>>

NextCompose == ComposeLabels

SpecCompose == InitCompose /\ [][NextCompose]_vars

(***************************************************************************)
(* C19.  Claimed: composition is associative and position-agnostic for all *)
(* fragments that have no leading or trailing comma of their own.          *)
(***************************************************************************)
\* A text with no comma first or last.
NoOuterComma(text) ==
    text # <<>> => (text[1] # Comma /\ text[Len(text)] # Comma)

\* The texts that are not empty, with one comma between neighbours.
RECURSIVE Joined(_)
Joined(texts) ==
    IF texts = <<>> THEN <<>>
    ELSE LET rest == Joined(Tail(texts))
         IN  IF Head(texts) = <<>> THEN rest
             ELSE IF rest = <<>> THEN Head(texts)
             ELSE Head(texts) \o <<Comma>> \o rest

\* What C19 says of the two groupings of A, B and C, once formatted.
Composes(c) ==
    /\ c.left = c.right
    /\ NoOuterComma(c.left.text)
    /\ c.left.text =
          Joined(<<fmt_labels(frag_a), fmt_labels(frag_b), fmt_labels(frag_c)>>)

\* Claim C19: for all fragments A, B and C with no comma first or last,
\* both groupings write the same text and agree on is_empty(); the text has
\* no comma first or last and exactly one between neighbouring fragments
\* that are not empty.
C19_CompositionIsPositionAgnostic ==
    (/\ composed # None
     /\ \A l \in {frag_a, frag_b, frag_c} : NoOuterComma(fmt_labels(l)))
        => Composes(composed[1])

\* A fragment whose is_empty() is true exactly if it writes nothing.
ReportsEmptiness(l) == is_empty(l) <=> fmt_labels(l) = <<>>

\* The same, for fragments A, B and C whose is_empty() is true exactly if
\* they write nothing (no closure that writes nothing among them).
C19_HoldsIfEmptinessIsReported ==
    (/\ composed # None
     /\ \A l \in {frag_a, frag_b, frag_c} :
           NoOuterComma(fmt_labels(l)) /\ ReportsEmptiness(l))
        => Composes(composed[1])

(***************************************************************************)
(* C20.  What one TransportClose event does.                               *)
(***************************************************************************)
\* The TransportTree of r at a path; one never reached is as if new.
TransportTreeAt(r, path) ==
    IF \E x \in TransportTreesOf(r) : x.path = path
    THEN (CHOOSE x \in TransportTreesOf(r) : x.path = path).tree
    ELSE DefaultTransportTree

\* An end bucket of a TransportTree; one never reached is as if new.
EndBucket(t, class) ==
    IF contains_key(t.by_end, class) THEN get(t.by_end, class)
    ELSE DefaultTransportEndMetrics

\* The step is Root::record of TransportClose(ctx, close).
RecordsTransportClose(ctx, close) ==
    /\ events' = events + 1
    /\ root' = Root_record(root, [type |-> "TransportClose", ctx |-> ctx,
                                  close |-> close])

\* old and new are a TransportTree before and after one close.
Closed(old, new, close) ==
    LET class == IF close.clean THEN "Success" ELSE "Failure"
        other == IF close.clean THEN "Failure" ELSE "Success"
    IN  /\ new.open_active = IF old.open_active = 0 THEN 0 ELSE old.open_active - 1
        /\ new.open_total = old.open_total
        /\ new.rx_bytes_total = old.rx_bytes_total + close.rx_bytes
        /\ new.tx_bytes_total = old.tx_bytes_total + close.tx_bytes
        /\ EndBucket(new, class).close_total = EndBucket(old, class).close_total + 1
        /\ EndBucket(new, class).lifetime.count
              = EndBucket(old, class).lifetime.count + 1
        /\ EndBucket(new, class).lifetime.sum
              = EndBucket(old, class).lifetime.sum + close.duration
        /\ contains_key(new.by_end, other) <=> contains_key(old.by_end, other)
        /\ EndBucket(new, other) = EndBucket(old, other)

\* Claim C20: a TransportClose event changes the TransportTree at its
\* direction, destination key and peer role, and no other: open_active goes
\* down by one and stays at 0 if it was 0, the byte counters grow by the
\* close's bytes, the end bucket Success (for a clean close, else Failure)
\* counts one more close and one more duration, and the other end bucket is
\* as it was.
C20_TransportCloseUpdatesOneEndBucket ==
    [][\A ctx \in TransportCtxs, close \in Closes :
          RecordsTransportClose(ctx, close) =>
              /\ Closed(TransportTreeAt(root, TransportPath(ctx)),
                        TransportTreeAt(root', TransportPath(ctx)), close)
              /\ \A x \in TransportTreesOf(root') :
                    x.path # TransportPath(ctx) =>
                        x.tree = TransportTreeAt(root, x.path)]_vars

\* One tree, opened once, was closed cleanly and then uncleanly: the second
\* close found open_active at 0.
C20_Witness ==
    \E x \in TransportTreesOf(root) :
        /\ x.tree.open_total = 1
        /\ x.tree.open_active = 0
        /\ x.tree.by_end[1].k = "Success"
        /\ EndBucket(x.tree, "Success").close_total = 1
        /\ EndBucket(x.tree, "Failure").close_total = 1
        /\ x.tree.rx_bytes_total = 100

(***************************************************************************)
(* What the claims on single events speak of: the step of one record call  *)
(* and the metrics at a path, before and after it.                         *)
(***************************************************************************)
\* The step is Root::record of event.
Records(event) ==
    /\ events' = events + 1
    /\ root' = Root_record(root, event)

\* The path of an HttpEndMetrics: direction, destination key, authority,
\* response class, end class.
LeafPath(proxy, labels, authority, rsp_class, end_class) ==
    [proxy |-> proxy, labels |-> labels, authority |-> authority,
     rsp_class |-> rsp_class, end_class |-> end_class]

PathOf(e) == LeafPath(e.proxy, e.labels, e.authority, e.rsp_class, e.end_class)

\* The HttpEndMetrics of r at a path; one never reached is as if new.
HttpEndMetricsAt(r, path) ==
    IF \E e \in HttpEndMetricsOf(r) : PathOf(e) = path
    THEN (CHOOSE e \in HttpEndMetricsOf(r) : PathOf(e) = path).metrics
    ELSE DefaultHttpEndMetrics

\* The request counter of r at a direction, destination key and authority;
\* one never reached is as if new.
RequestTotalAt(r, proxy, labels, authority) ==
    LET found == {q \in HttpRequestTreesOf(r) :
                    q.proxy = proxy /\ q.labels = labels /\ q.authority = authority}
    IN  IF found = {} THEN 0 ELSE (CHOOSE q \in found : TRUE).tree.metrics.total

\* The authority a request is keyed by.
AuthorityOf(req) == IF req.authority = None THEN "" ELSE req.authority[1]

\* old and new are an HttpEndMetrics before and after one more sample.
Added(old, new, latency) ==
    /\ new.total = old.total + 1
    /\ new.latency.count = old.latency.count + 1
    /\ new.latency.sum = old.latency.sum + latency

\* Every HttpEndMetrics but the one at path is as it was.
OtherLeavesKept(path) ==
    \A e \in HttpEndMetricsOf(root') :
        PathOf(e) # path => e.metrics = HttpEndMetricsAt(root, PathOf(e))

\* Every request counter is as it was.
RequestTotalsKept ==
    \A q \in HttpRequestTreesOf(root') :
        q.tree.metrics.total = RequestTotalAt(root, q.proxy, q.labels, q.authority)

\* Every TransportTree is as it was.
TransportTreesKept ==
    \A x \in TransportTreesOf(root') : x.tree = TransportTreeAt(root, x.path)

(***************************************************************************)
(* C21.  What one StreamRequestFail event does.                            *)
(***************************************************************************)
\* Claim C21: a StreamRequestFail event with reason r adds one to total and
\* one sample of fail.since_request_open to the HttpEndMetrics at response
\* class Error{r} and end class Error{r} under the request's authority, which
\* exists afterwards, and changes no other metric: no other HttpEndMetrics,
\* no request counter, no TransportTree, not the start time.
C21_RequestFailCountsOneErrorLeaf ==
    [][\A req \in Requests, error \in ErrorCodes, since \in Latencies :
          Records([type |-> "StreamRequestFail", req |-> req,
                   fail |-> [error |-> error, since_request_open |-> since]]) =>
              LET r    == ExpectedReason(error)
                  path == LeafPath(req.proxy, req.dst_labels, AuthorityOf(req),
                                   ErrorClass(r), ErrorEnd(r))
              IN  /\ \E e \in HttpEndMetricsOf(root') : PathOf(e) = path
                  /\ Added(HttpEndMetricsAt(root, path),
                           HttpEndMetricsAt(root', path), since)
                  /\ OtherLeavesKept(path)
                  /\ RequestTotalsKept
                  /\ TransportTreesKept
                  /\ root'.start_time = root.start_time]_vars

\* A request that failed twice with a code past the list, on an authority
\* whose request counter is still 0.
C21_Witness ==
    \E e \in HttpEndMetricsOf(root) :
        /\ e.rsp_class = ErrorClass("UNKNOWN")
        /\ e.end_class = ErrorEnd("UNKNOWN")
        /\ e.metrics.total = 2
        /\ e.metrics.latency.count = 2
        /\ RequestTotalAt(root, e.proxy, e.labels, e.authority) = 0

(***************************************************************************)
(* C22.  What one StreamResponseEnd or StreamResponseFail event does.      *)
(***************************************************************************)
\* The path of the HttpEndMetrics of a response at an end class.
ResponseLeafPath(res, end_class) ==
    LeafPath(res.request.proxy, res.request.dst_labels, AuthorityOf(res.request),
             ResponseClass(res.status), end_class)

\* The HttpEndMetrics at path has one more sample, and it alone has changed.
OneLeafAdded(path, latency) ==
    /\ \E e \in HttpEndMetricsOf(root') : PathOf(e) = path
    /\ Added(HttpEndMetricsAt(root, path), HttpEndMetricsAt(root', path), latency)
    /\ OtherLeavesKept(path)

\* Claim C22: a StreamResponseEnd or StreamResponseFail event updates exactly
\* one HttpEndMetrics, under the request's authority and the response class
\* Response{status}: at end class Grpc{s} for an end with grpc_status Some(s),
\* at Eos for an end without, at Error{reason} for a fail; there total grows
\* by one and since_request_open is observed once.
C22_ResponseEndCountsOneLeaf ==
    [][/\ \A res \in Responses, grpc \in GrpcStatuses, since \in Latencies :
            Records([type |-> "StreamResponseEnd", res |-> res,
                     end |-> [grpc_status |-> grpc, since_request_open |-> since]])
                => OneLeafAdded(ResponseLeafPath(res,
                        IF grpc = None THEN EosEnd ELSE GrpcEnd(grpc[1])), since)
       /\ \A res \in Responses, error \in ErrorCodes, since \in Latencies :
            Records([type |-> "StreamResponseFail", res |-> res,
                     fail |-> [error |-> error, since_request_open |-> since]])
                => OneLeafAdded(ResponseLeafPath(res, ErrorEnd(ExpectedReason(error))),
                                since)]_vars

\* One response ended with gRPC status 2, ended without a gRPC status and
\* failed: three leaves under Response{200}, one sample each.
C22_Witness ==
    \E res \in Responses :
        /\ HttpEndMetricsAt(root, ResponseLeafPath(res, GrpcEnd(2))).total = 1
        /\ HttpEndMetricsAt(root, ResponseLeafPath(res, EosEnd)).total = 1
        /\ HttpEndMetricsAt(root, ResponseLeafPath(res, ErrorEnd("FLOW_CONTROL_ERROR"))).total = 1

(***************************************************************************)
(* C23.  StreamRequestEnd and StreamResponseOpen update nothing.           *)
(***************************************************************************)
\* Every counter, gauge and histogram of the tree is as it was; one of an
\* entry made by the step is as if new.
NoMetricChanged ==
    /\ \A e \in HttpEndMetricsOf(root') :
          e.metrics = HttpEndMetricsAt(root, PathOf(e))
    /\ RequestTotalsKept
    /\ TransportTreesKept
    /\ root'.start_time = root.start_time

\* Claim C23: recording a StreamRequestEnd or a StreamResponseOpen event
\* changes the value of no counter, gauge or histogram anywhere in the tree.
C23_RequestEndAndResponseOpenUpdateNothing ==
    [][/\ \A req \in Requests, since \in Latencies :
            Records([type |-> "StreamRequestEnd", req |-> req,
                     end |-> [since_request_open |-> since]]) => NoMetricChanged
       /\ \A res \in Responses, since \in Latencies :
            Records([type |-> "StreamResponseOpen", res |-> res,
                     open |-> [since_request_open |-> since]]) => NoMetricChanged]_vars

\* After a request was opened, ended and its response opened, the request
\* counter is 1 and the response entry holds no sample.
C23_Witness ==
    /\ events = 3
    /\ \E q \in HttpRequestTreesOf(root) :
          /\ q.tree.metrics.total = 1
          /\ Len(q.tree.by_response) = 1
          /\ q.tree.by_response[1].v.by_end = <<>>

(***************************************************************************)
(* One outbound client whose destination labels change between events:    *)
(* its ctx holds a watch, and dst_mut clones what the watch holds when the *)
(* event is recorded.                                                      *)
(***************************************************************************)
LabelsBar == DstLabels_new(<< <<"app", "bar">> >>)

WatchLabels == {None, LabelsFoo, LabelsBar}

InitWatch ==
    /\ InitTree
    /\ watch \in WatchLabels
    /\ IdleLabels /\ IdleH2 /\ IdleServe /\ IdleDst /\ IdleGauge
    /\ IdleScrape /\ IdleCompose /\ IdleDesc

\* The discovery subsystem writes new labels to the watch.
LabelsChange ==
    /\ \E labels \in WatchLabels \ {watch} : watch' = labels
    /\ UNCHANGED <<treeVars, labelVars, h2Vars, serveVars, dstVars, gaugeVars,
                   scrapeVars, composeVars, descVars>>

\* The events of the client, with the labels its watch holds now.
WatchedEvents ==
    {[type |-> "TransportOpen", ctx |-> ClientCtx("Outbound", watch)]}
    \cup {[type |-> "TransportClose", ctx |-> ClientCtx("Outbound", watch),
           close |-> close] : close \in Closes}
    \cup {[type |-> "StreamRequestOpen",
           req  |-> [proxy |-> "Outbound", dst_labels |-> watch,
                     authority |-> Some("x")]]}

\* Root::record of an event of the client.
RecordWatched ==
    \E event \in WatchedEvents :
        /\ events < MaxEvents
        /\ root' = Root_record(root, event)
        /\ events' = events + 1
        /\ warnings' =
            IF /\ event.type = "TransportClose"
               /\ GaugeDecrWarns(transport_at(root, event.ctx).open_active)
            THEN (TransportPath(event.ctx) :> Warned(TransportPath(event.ctx)) + 1)
                 @@ warnings
            ELSE warnings
        /\ UNCHANGED <<labelVars, h2Vars, serveVars, dstVars, gaugeVars, scrapeVars,
                       composeVars, watchVars, descVars>>

NextWatch == LabelsChange \/ RecordWatched

SpecWatch == InitWatch /\ [][NextWatch]_vars

(***************************************************************************)
(* C24.  The destination key is the label snapshot read when the event is  *)
(* recorded.                                                               *)
(***************************************************************************)
\* Claim C24: an event of a client is recorded under the DstClass entry of
\* the labels the client has when the event is recorded, which is made if
\* it is not there; the entries of the labels the client had before are
\* left as they were.
C24_KeyIsTheSnapshotAtEventTime ==
    [][events' = events + 1 =>
          LET old == root.outbound.by_dst
              new == root'.outbound.by_dst
          IN  /\ contains_key(new, DstClass(watch))
              /\ get(new, DstClass(watch)) # entry_get(old, DstClass(watch), DefaultDstTree)
              /\ \A i \in 1..Len(old) :
                    old[i].k # DstClass(watch) => new[i] = old[i]
              /\ root'.inbound = root.inbound]_vars

\* The client opened a transport with labels app=foo and closed it with
\* labels app=bar: the close is in a second entry, the first still has the
\* connection open.
C24_Witness ==
    /\ Len(root.outbound.by_dst) = 2
    /\ root.outbound.by_dst[1].k = DstClass(LabelsFoo)
    /\ root.outbound.by_dst[1].v.dst_tcp_metrics.open_active = 1
    /\ root.outbound.by_dst[1].v.dst_tcp_metrics.by_end = <<>>
    /\ root.outbound.by_dst[2].k = DstClass(LabelsBar)
    /\ root.outbound.by_dst[2].v.dst_tcp_metrics.open_total = 0
    /\ closed_total(root.outbound.by_dst[2].v.dst_tcp_metrics) = 1

(***************************************************************************)
(* mod.rs: the metric descriptors and their Display.  The prelude of a     *)
(* descriptor is its two lines, as Help_fmt has them.                      *)
(***************************************************************************)
\* Desc::new
Desc_new(name, kind, help) == [kind |-> kind, name |-> name, help |-> help]

\* The descriptors mod.rs declares.
DESCS ==
    {Desc_new("request_total", "counter",
        "A counter of the number of requests the proxy has received."),
     Desc_new("request_duration_ms", "histogram",
        "A histogram of the duration of a request. This is measured from when the request headers are received to when the request stream has completed."),
     Desc_new("response_total", "counter",
        "A counter of the number of responses the proxy has received."),
     Desc_new("response_duration_ms", "histogram",
        "A histogram of the duration of a response. This is measured from when the response headers are received to when the response stream has completed."),
     Desc_new("response_latency_ms", "histogram",
        "A histogram of the total latency of a response. This is measured from when the request headers are received to when the response stream has completed."),
     Desc_new("tcp_accept_open_total", "counter",
        "A counter of the total number of transport connections which have been accepted by the proxy."),
     Desc_new("tcp_accept_close_total", "counter",
        "A counter of the total number of transport connections accepted by the proxy which have been closed."),
     Desc_new("tcp_connect_open_total", "counter",
        "A counter of the total number of transport connections which have been opened by the proxy."),
     Desc_new("tcp_connect_close_total", "counter",
        "A counter of the total number of transport connections opened by the proxy which have been closed."),
     Desc_new("tcp_connection_duration_ms", "histogram",
        "A histogram of the duration of the lifetime of a connection, in milliseconds"),
     Desc_new("received_bytes", "counter",
        "A counter of the total number of recieved bytes."),
     Desc_new("sent_bytes", "counter",
        "A counter of the total number of sent bytes.")}

\* Display for Desc
Desc_fmt(d) ==
    <<[line |-> "HELP", name |-> d.name, help |-> d.help],
      [line |-> "TYPE", name |-> d.name, kind |-> "counter"]>>

\* The kinds a descriptor can be given.
Kinds == {"counter", "gauge", "histogram"}

\* The descriptors help.rs declares.
HELPS == {(HTTP \o TCP)[i] : i \in 1..Len(HTTP \o TCP)}

\* A descriptor of either struct: one that is declared, or one with the name
\* and help of a declared one and another kind.
InitDesc ==
    /\ \/ \E d \in DESCS, kind \in Kinds :
             desc = Some([of |-> "Desc", d |-> Desc_new(d.name, kind, d.help)])
       \/ \E h \in HELPS, kind \in Kinds :
             desc = Some([of |-> "Help",
                          d  |-> [kind |-> kind, name |-> h.name, help |-> h.help]])
    /\ prelude = None
    /\ IdleTree /\ IdleLabels /\ IdleH2 /\ IdleServe /\ IdleDst /\ IdleGauge
    /\ IdleScrape /\ IdleCompose /\ IdleWatch

\* Formatting a Desc.
FormatDesc ==
    /\ desc[1].of = "Desc"
    /\ prelude = None
    /\ prelude' = Some(Desc_fmt(desc[1].d))
    /\ UNCHANGED <<desc, treeVars, labelVars, h2Vars, serveVars, dstVars, gaugeVars,
                   scrapeVars, composeVars, watchVars>>

\* Formatting a Help.
FormatHelp ==
    /\ desc[1].of = "Help"
    /\ prelude = None
    /\ prelude' = Some(Help_fmt(desc[1].d))
    /\ UNCHANGED <<desc, treeVars, labelVars, h2Vars, serveVars, dstVars, gaugeVars,
                   scrapeVars, composeVars, watchVars>>

NextDesc == FormatDesc \/ FormatHelp

SpecDesc == InitDesc /\ [][NextDesc]_vars

(***************************************************************************)
(* C25.  Claimed: the prelude of every descriptor is its HELP line and     *)
(* then its TYPE line, with the descriptor's own kind.                     *)
(***************************************************************************)
\* The prelude is # HELP <name> <help>, then # TYPE <name> <kind>, of d.
IsPreludeOf(lines, d) ==
    lines = <<[line |-> "HELP", name |-> d.name, help |-> d.help],
              [line |-> "TYPE", name |-> d.name, kind |-> d.kind]>>

\* Claim C25: for every metric descriptor the prelude written is the line
\* # HELP <name> <help> and then the line # TYPE <name> <kind> with the
\* descriptor's own kind; no histogram or gauge is announced as a counter.
C25_PreludeAnnouncesOwnKind ==
    prelude # None => IsPreludeOf(prelude[1], desc[1].d)

\* The same, for the descriptors of help.rs alone.
C25_HelpAnnouncesOwnKind ==
    (prelude # None /\ desc[1].of = "Help") => IsPreludeOf(prelude[1], desc[1].d)

(***************************************************************************)
(* C26.  Totals and sample counts go together.                             *)
(***************************************************************************)
\* Claim C26: in every TransportEndMetrics close_total is the number of
\* samples of its lifetime histogram, and in every HttpEndMetrics total is
\* the number of samples of its latency histogram (no counter is near its
\* maximum within the events recorded).
C26_TotalsEqualSampleCounts ==
    /\ \A x \in TransportTreesOf(root) :
          \A i \in 1..Len(x.tree.by_end) :
              x.tree.by_end[i].v.close_total = x.tree.by_end[i].v.lifetime.count
    /\ \A e \in HttpEndMetricsOf(root) :
          e.metrics.total = e.metrics.latency.count

\* A response leaf with two samples and a transport end with one.
C26_Witness ==
    /\ \E e \in HttpEndMetricsOf(root) :
          e.metrics.total = 2 /\ e.metrics.latency.count = 2
    /\ \E x \in TransportTreesOf(root) :
          /\ x.tree.by_end # <<>>
          /\ x.tree.by_end[1].v.close_total = 1
          /\ x.tree.by_end[1].v.lifetime.count = 1

(***************************************************************************)
(* Transport events of both roles in both directions, with and without     *)
(* destination labels.                                                     *)
(***************************************************************************)
PeerCtxs ==
    {ServerCtx(proxy) : proxy \in Proxies}
    \cup {ClientCtx(proxy, labels) : proxy \in Proxies, labels \in {None, LabelsFoo}}

InitPeers ==
    /\ InitTree
    /\ IdleLabels /\ IdleH2 /\ IdleServe /\ IdleDst /\ IdleGauge
    /\ IdleScrape /\ IdleCompose /\ IdleWatch /\ IdleDesc

\* Root::record of TransportOpen
PeerOpen ==
    \E ctx \in PeerCtxs :
        /\ Recorded([type |-> "TransportOpen", ctx |-> ctx])
        /\ UNCHANGED warnings

\* Root::record of TransportClose
PeerClose ==
    \E ctx \in PeerCtxs, close \in Closes :
        /\ Recorded([type |-> "TransportClose", ctx |-> ctx, close |-> close])
        /\ warnings' =
            IF GaugeDecrWarns(transport_at(root, ctx).open_active)
            THEN (TransportPath(ctx) :> Warned(TransportPath(ctx)) + 1) @@ warnings
            ELSE warnings

NextPeers == PeerOpen \/ PeerClose

SpecPeers == InitPeers /\ [][NextPeers]_vars

(***************************************************************************)
(* C27.  Where transport events of each role go.                           *)
(***************************************************************************)
\* The step is Root::record of a transport event of ctx.
RecordsTransport(ctx) ==
    \/ Records([type |-> "TransportOpen", ctx |-> ctx])
    \/ \E close \in Closes :
          Records([type |-> "TransportClose", ctx |-> ctx, close |-> close])

\* The TransportTree at path has changed, and it alone.
OneTransportTreeChanged(path) ==
    /\ \E x \in TransportTreesOf(root') : x.path = path
    /\ TransportTreeAt(root', path) # TransportTreeAt(root, path)
    /\ \A x \in TransportTreesOf(root') :
          x.path # path => x.tree = TransportTreeAt(root, x.path)

\* Claim C27: a transport event of a server goes to the peer="src"
\* TransportTree of the DstTree keyed by no labels, one of a client to the
\* peer="dst" TransportTree of the DstTree keyed by its labels; so in every
\* DstTree keyed by labels the peer="src" TransportTree stays all zero, with
\* no end buckets.
C27_ServerIsSrcOfUnlabelledClientIsDst ==
    [][/\ \A ctx \in PeerCtxs :
            RecordsTransport(ctx) =>
                OneTransportTreeChanged(
                    IF ctx.role = "Server" THEN <<ctx.proxy, None, "Server">>
                    ELSE <<ctx.proxy, ctx.dst_labels, "Client">>)
       /\ \A d \in DstTreesOf(root') :
            d.labels # None => d.tree.src_tcp_metrics = DefaultTransportTree]_vars

\* One direction has a DstTree keyed by labels whose client side was opened,
\* and its server opened and closed a connection: that is in the DstTree
\* without labels.
C27_Witness ==
    \E proxy \in Proxies :
        /\ TransportTreeAt(root, <<proxy, LabelsFoo, "Client">>).open_total = 1
        /\ TransportTreeAt(root, <<proxy, LabelsFoo, "Server">>) = DefaultTransportTree
        /\ TransportTreeAt(root, <<proxy, None, "Server">>).open_total = 1
        /\ TransportTreeAt(root, <<proxy, None, "Server">>).by_end # <<>>
        /\ TransportTreeAt(root, <<proxy, None, "Client">>) = DefaultTransportTree

(***************************************************************************)
(* C28.  The entries under response class Error.                           *)
(***************************************************************************)
\* Every HttpResponseTree of r, by its path and with its end-class keys.
HttpResponseTreesOf(r) ==
    UNION {{[proxy |-> q.proxy, labels |-> q.labels, authority |-> q.authority,
             rsp_class |-> q.tree.by_response[i].k,
             tree |-> q.tree.by_response[i].v]
            : i \in 1..Len(q.tree.by_response)} : q \in HttpRequestTreesOf(r)}

\* The HttpResponseTrees of r under a response class Error.
ErrorResponseTreesOf(r) == {t \in HttpResponseTreesOf(r) : t.rsp_class.tag = "Error"}

\* The step is Root::record of a StreamRequestFail.
RecordsRequestFail ==
    \E req \in Requests, error \in ErrorCodes, since \in Latencies :
        Records([type |-> "StreamRequestFail", req |-> req,
                 fail |-> [error |-> error, since_request_open |-> since]])

\* Claim C28: under a response class Error{r} every end-class key is
\* Error{r}, with the same r; only a StreamRequestFail makes or updates an
\* entry under a response class Error, so what any other event (a response
\* event among them) makes or updates is under Response{status_code}.
C28_ErrorClassHoldsOnlyItsOwnErrorEnd ==
    [][/\ \A t \in ErrorResponseTreesOf(root') :
            \A j \in 1..Len(t.tree.by_end) :
                t.tree.by_end[j].k = ErrorEnd(t.rsp_class.reason)
       /\ ~RecordsRequestFail =>
            ErrorResponseTreesOf(root') = ErrorResponseTreesOf(root)]_vars

\* One request failed, and a response of its authority failed too: the first
\* is under Error{r}, the second under Response{status_code}.
C28_Witness ==
    \E t \in ErrorResponseTreesOf(root), u \in HttpResponseTreesOf(root) :
        /\ t.tree.by_end # <<>>
        /\ u.rsp_class.tag = "Response"
        /\ u.authority = t.authority /\ u.proxy = t.proxy /\ u.labels = t.labels
        /\ \E j \in 1..Len(u.tree.by_end) : u.tree.by_end[j].k.tag = "Error"

(***************************************************************************)
(* C29.  One event changes only the subtree its keys select.               *)
(***************************************************************************)
TransportEvents ==
    {[type |-> "TransportOpen", ctx |-> ctx] : ctx \in TransportCtxs}
    \cup {[type |-> "TransportClose", ctx |-> ctx, close |-> close]
            : ctx \in TransportCtxs, close \in Closes}

StreamEvents ==
    {[type |-> "StreamRequestOpen", req |-> req] : req \in Requests}
    \cup {[type |-> "StreamRequestFail", req |-> req,
           fail |-> [error |-> error, since_request_open |-> since]]
            : req \in Requests, error \in ErrorCodes, since \in Latencies}
    \cup {[type |-> "StreamRequestEnd", req |-> req,
           end |-> [since_request_open |-> since]]
            : req \in Requests, since \in Latencies}
    \cup {[type |-> "StreamResponseOpen", res |-> res,
           open |-> [since_request_open |-> since]]
            : res \in Responses, since \in Latencies}
    \cup {[type |-> "StreamResponseEnd", res |-> res,
           end |-> [grpc_status |-> grpc, since_request_open |-> since]]
            : res \in Responses, grpc \in GrpcStatuses, since \in Latencies}
    \cup {[type |-> "StreamResponseFail", res |-> res,
           fail |-> [error |-> error, since_request_open |-> since]]
            : res \in Responses, error \in ErrorCodes, since \in Latencies}

\* A Root given any of these events, a few at a time.
MaxFrameEvents == 2

InitFrame ==
    /\ InitTree
    /\ IdleLabels /\ IdleH2 /\ IdleServe /\ IdleDst /\ IdleGauge
    /\ IdleScrape /\ IdleCompose /\ IdleWatch /\ IdleDesc

\* Root::record
RecordAny ==
    \E event \in TransportEvents \cup StreamEvents :
        /\ events < MaxFrameEvents
        /\ root' = Root_record(root, event)
        /\ events' = events + 1
        /\ warnings' =
            IF /\ event.type = "TransportClose"
               /\ GaugeDecrWarns(transport_at(root, event.ctx).open_active)
            THEN [warnings EXCEPT ![TransportPath(event.ctx)] = @ + 1]
            ELSE warnings
        /\ UNCHANGED <<labelVars, h2Vars, serveVars, dstVars, gaugeVars, scrapeVars,
                       composeVars, watchVars, descVars>>

NextFrame == RecordAny

SpecFrame == InitFrame /\ [][NextFrame]_vars

\* The direction of an event.
DirectionOf(event) ==
    IF event \in TransportEvents THEN event.ctx.proxy
    ELSE IF "req" \in DOMAIN event THEN event.req.proxy
    ELSE event.res.request.proxy

\* The HTTP request mapping of the DstTree of r at a direction and key; one
\* never reached is as if new.
RequestMappingAt(r, proxy, labels) ==
    LET found == {d \in DstTreesOf(r) : d.proxy = proxy /\ d.labels = labels}
    IN  IF found = {} THEN <<>> ELSE (CHOOSE d \in found : TRUE).tree.by_http_request

\* Claim C29: an event of one direction leaves the ProxyTree of the other
\* direction as it was; no event changes the start time; a transport event
\* leaves every HTTP request mapping as it was, and a stream event leaves
\* every TransportTree as it was.
C29_EventChangesOnlyItsSubtree ==
    [][\A event \in TransportEvents \cup StreamEvents :
          Records(event) =>
              /\ DirectionOf(event) = "Inbound" => root'.outbound = root.outbound
              /\ DirectionOf(event) = "Outbound" => root'.inbound = root.inbound
              /\ root'.start_time = root.start_time
              /\ event \in TransportEvents =>
                    \A d \in DstTreesOf(root') :
                        d.tree.by_http_request
                            = RequestMappingAt(root, d.proxy, d.labels)
              /\ event \in StreamEvents => TransportTreesKept]_vars

\* A destination with an outbound connection had a request recorded, and
\* the connection is as it was.
C29_Witness ==
    /\ events = 2
    /\ TransportTreeAt(root, <<"Outbound", LabelsFoo, "Client">>).open_total = 1
    /\ RequestTotalAt(root, "Outbound", LabelsFoo, "x") = 1
    /\ root.inbound = DefaultProxyTree

(***************************************************************************)
(* C30.  Every stream event makes the entries of its keys.                 *)
(***************************************************************************)
\* The request of a stream event.
RequestOf(event) ==
    IF "req" \in DOMAIN event THEN event.req ELSE event.res.request

\* The HttpRequestTrees of r at the keys of a request.
RequestTreesAt(r, req) ==
    {q \in HttpRequestTreesOf(r) :
        /\ q.proxy = req.proxy
        /\ q.labels = req.dst_labels
        /\ q.authority = AuthorityOf(req)}

\* A request_total line of value 0 with the labels of a request.
IsUnusedRequestSeries(line, req) ==
    /\ line.name = "request_total"
    /\ line.value = 0
    /\ LabelValues(line, "direction")
        = {IF req.proxy = "Inbound" THEN "inbound" ELSE "outbound"}
    /\ (req.dst_labels = None) = (LabelValues(line, "dst_app") = {})
    /\ LabelValues(line, "authority") = {AuthorityOf(req)}

\* Claim C30: after any stream event the DstTree and the HttpRequestTree of
\* its keys exist, and after a response event so does the Response
\* {status_code} entry; a StreamRequestEnd or a response event for an
\* authority not seen before makes the scrape hold a request_total series of
\* value 0 for that authority.
C30_StreamEventsMakeTheirEntries ==
    [][\A event \in StreamEvents :
          Records(event) =>
              LET req == RequestOf(event)
              IN  /\ RequestTreesAt(root', req) # {}
                  /\ "res" \in DOMAIN event =>
                        \A q \in RequestTreesAt(root', req) :
                            contains_key(q.tree.by_response,
                                         ResponseClass(event.res.status))
                  /\ (/\ event.type \in {"StreamRequestEnd", "StreamResponseOpen",
                                         "StreamResponseEnd", "StreamResponseFail"}
                      /\ RequestTreesAt(root, req) = {})
                        => \E line \in Lines(root') : IsUnusedRequestSeries(line, req)]_vars

\* The first event of an authority was a StreamRequestEnd: its request tree
\* is there with nothing in it, and the scrape has its series at 0.
C30_Witness ==
    /\ events = 1
    /\ \E q \in HttpRequestTreesOf(root) :
          /\ q.authority = "x"
          /\ q.tree = DefaultHttpRequestTree
    /\ \E line \in Lines(root) :
          /\ line.name = "request_total"
          /\ line.value = 0
          /\ LabelValues(line, "authority") = {"x"}

====
